---- MODULE Spec2Model ----
(***************************************************************************)
(* Testerman core: the job subsystem (core/JobManager.py), the agent       *)
(* controller broker (core/TestermanAgentControllerServer.py) and the      *)
(* TTCN-3 runtime (core/TestermanTTCN3.py), as state machines.             *)
(*                                                                         *)
(* Each subsystem has its own specification over its own variables; the    *)
(* variables of the other subsystems stay idle in it.                      *)
(***************************************************************************)
EXTENDS Integers, Sequences, FiniteSets, TLC

(***************************************************************************)
(* Bounds of the model.                                                    *)
(***************************************************************************)
MaxJobs == 2         \* root jobs submitted
MaxChildren == 1     \* child jobs parsed out of campaigns
MaxEvents == 1       \* signals sent by clients, and server restarts
MaxThreads == 1      \* job.run threads started by the scheduler and alive at the same time
MaxFaults == 1       \* environment failures (a prepare error, a failed move or fork, a TE crash)

VARIABLES
  \* ---- job subsystem ----
  genId,       \* _GeneratorBaseId
  jobs,        \* slot -> job object (its attributes)
  jobQueue,    \* JobManager._jobQueue, a list of slots
  schedSel,    \* Scheduler.check: the jobs of the current scan not yet examined
  thr,         \* the job.run threads
  teProc,      \* slot -> the forked TE process
  hs,          \* the handleSignal call in progress
  nEvent,      \* signals sent and restarts begun so far
  dump,        \* jobqueue.dump
  phase,       \* server life cycle
  nFault,      \* environment failures so far
  \* ---- agent controller (TACS) ----
  chan,          \* Ia channel -> "new", "up" (registered as Ia client) or "down"
  iaClients,     \* Controller._iaClients
  probes,        \* probe uri -> its entry in Controller._probes (registered, locks)
  subscriptions, \* Controller._subscriptions: uri -> channels
  req,           \* Ia channel -> the request of the channel being handled
  resp,          \* Ia channel -> the last response sent to it (status code, reason phrase)
  disc,          \* Ia channel -> uris whose probe-unlocked notification its disconnection owes
  xa,            \* probe uri -> the notification its (un)registration owes
  \* ---- TTCN-3 runtime: one timer ----
  timerId,       \* Timer._timerId (0: None)
  Timers,        \* the keys of _Timers
  pa,            \* timer id -> what the platform adapter does with it
  cb,            \* timer id -> position of the triTimeout call for it
  timeouts,      \* number of TIMEOUT events of the timer in the system queue
  timerPc,       \* position of the test component in Timer.start
  nextTimerId,   \* the id _getNewId returns next
  period,        \* id of the period that start began last and that has not expired
  \* ---- TTCN-3 runtime: alt on the system queue ----
  sysQ,          \* _SystemQueue._messageQueue
  lastAlt,       \* the last alt that returned: what it matched, and what became of it
  \* ---- TTCN-3 runtime: test case, components, verdicts ----
  tcase,         \* position of TestCase.execute
  tcState,       \* PTC -> TestComponent._state
  tcAlive,       \* PTC -> TestComponent._alive
  verdict,       \* component (0: the MTC) -> TestComponent._verdict
  commands,      \* PTC -> its stop_ptc and kill_ptc commands in the system queue
  lastSet,       \* component -> the verdict the last _setverdict on it was called with
  ownSup,        \* supremum of the verdicts set on the MTC by the test case itself
  endSup,        \* supremum of the verdicts of the PTCs at the ends of their runs not ended by a kill
  completed,     \* the PTCs a run of which ended normally or by a stop
  tcThread,      \* PTC -> its behaviour threads: runs started, one running, _doKill calls owed
  \* ---- agent controller (TACS): the Xa side ----
  xaChan,        \* Xa channel -> "up" or "down"
  agents,        \* Controller._agents: agent uri -> the channel it registered on (0: no entry)
  xaProbes,      \* Controller._probes: probe uri -> the channel it registered on (0: no entry)
  agentUri,      \* Controller._probes: probe uri -> the 'agent-uri' of its entry (0: no entry)
  xaResp,        \* the last Xa request handled and the status code of its response
  xaOut,         \* notification -> how often the last Xa handler dispatched it
  \* ---- TTCN-3 runtime: alt on the ports of a component ----
  portQ,            \* port -> Port._messageQueue; late: enqueued after the current pass began
  altPc,            \* position of the component: out of alt, in a pass, or in select
  portAlternatives, \* alt, step 1: port -> the templates of its alternatives
  toVisit,          \* the ports the current pass has not examined yet
  popped,           \* the message alt popped last and compared with the templates of its port
  \* ---- TTCN-3 runtime: port connections and mappings ----
  connectedPorts,   \* port -> Port._connectedPorts
  mappedTsiPort,    \* port -> Port._mappedTsiPort (0: None)
  mappedPorts,      \* TSI port -> TestSystemInterfacePort._mappedPorts
  TsiPorts,         \* the keys of _TsiPorts
  lastOp,           \* the last connect, disconnect, map or unmap call and whether it raised
  \* ---- job subsystem: one campaign and the tree of its children ----
  camp,             \* the campaign job object
  source,           \* the campaign source: what _parse made of it, whether its signature can be extracted
  kids,             \* child job -> its state and result; late: prepared or started after a cancel
  walk,             \* thread (0: run, g: parallel group g) -> the stack of its _run calls
  runPc,            \* position of CampaignJob.run
  cancelPc,         \* the handleSignal(cancel) call in progress and the state it read
  nCancel,          \* cancel signals sent so far
  delivered,        \* a cancel set the campaign cancelling while it was running
  groupThreads,     \* CampaignJob._groupThreads: the group threads started, by their group
  toJoin,           \* _waitForGroupsCompletion: the threads of its list not yet joined
  \* ---- agent controller (TACS): _dispatchNotification and the table mutex ----
  mutex,            \* Controller._mutex: the thread that holds it (0: free)
  subscribers,      \* Controller._subscriptions[uri], for the uri of the notification
  dispatch,         \* thread -> its position in _dispatchNotification, the channels still to send to
  lastSend,         \* the last sendNotification: its channel, whether its thread held the mutex
  \* ---- job subsystem: reschedule of one job ----
  rJob,               \* the job object
  now,                \* time.time()
  scheduledStartTime, \* Job._scheduledStartTime
  rescheduled,        \* the reschedule calls so far, what the last one was given and returned
  \* ---- job subsystem: purgeJobs ----
  pJobs,              \* job -> its _parent (0: None), _state and _stopTime (0: None)
  pQueue,             \* JobManager._jobQueue
  purged,             \* the purgeJobs calls so far, what the last one was given and returned
  sState,        \* job -> its _state
  sDue,          \* job -> its scheduled start time is past
  scan,          \* Scheduler.check: the calls so far, the jobs of the current one not yet examined
  cell,          \* check call -> its local variable job, which the lambdas of the call read (0: unbound)
  sThr,          \* the threads Scheduler.check started
  sRuns,         \* job -> the run calls made on it so far
  qState,        \* PTC -> TestComponent._state ("none": not created)
  qAlive,        \* PTC -> TestComponent._alive
  qQueue,        \* _SystemQueue._messageQueue
  qThread,       \* PTC -> position of its behaviour thread (_start, _doStop)
  qWait,         \* component -> the PTC on whose DONE its alt is waiting (0: not in alt)
  qStart,        \* the PTC whose start() the MTC is in (0: none)
  qRuns,         \* PTC -> behaviours started on it so far
  aTc,           \* the component that called alt
  aAlternatives, \* alt: the alternatives on the system queue, prefix first
  aRepeat,       \* alt: the alternatives whose action is REPEAT
  aQueue,        \* _SystemQueue._messageQueue during this alt
  aPc,           \* "idle": not in alt, "pass": in the loop of alt
  aMatch,        \* alt: its local variable match
  matchedInfo,   \* alt: the last selection, with the number of its pass
  aPasses,       \* passes of this alt that selected an alternative
  systemQueueNotifier,           \* TestermanContext._systemQueueNotifier (0: None)
  systemQueueNotifierUserCount,  \* TestermanContext._systemQueueNotifierUserCount
  pipes,         \* SystemQueue._pipes
  lAlts,         \* the alts of the component that are active, innermost last
  lBase,         \* the user count when the outermost active alt was called
  lPipes,        \* notifiers created so far
  lc,            \* _parse: lines read so far
  indent,        \* _parse: indent of the last line
  currentParent, \* _parse: the job the next job is added to (-1: None)
  lastCreatedJob,\* _parse: the job of the last line (0: None)
  parsed,        \* line -> the job made of it: type, indent, container, branch, _parent
  parseError     \* the exception _parse raised, if any, and the indentDiff of its line

jobVars == <<genId, jobs, jobQueue, schedSel, thr, teProc, hs, nEvent, dump,
             phase, nFault>>

tacsVars == <<chan, iaClients, probes, subscriptions, req, resp, disc, xa>>

timerVars == <<timerId, Timers, pa, cb, timeouts, timerPc, nextTimerId, period>>

altVars == <<sysQ, lastAlt>>

tcVars ==
  <<tcase, tcState, tcAlive, verdict, commands, lastSet, ownSup, endSup, completed, tcThread>>

ttcnVars == <<timerVars, altVars, tcVars>>

xaVars == <<xaChan, agents, xaProbes, agentUri, xaResp, xaOut>>

passVars == <<portQ, altPc, portAlternatives, toVisit, popped>>

portVars == <<connectedPorts, mappedTsiPort, mappedPorts, TsiPorts, lastOp>>

campVars ==
  <<camp, source, kids, walk, runPc, cancelPc, nCancel, delivered, groupThreads, toJoin>>

dispVars == <<mutex, subscribers, dispatch, lastSend>>

reschedVars == <<rJob, now, scheduledStartTime, rescheduled>>

purgeVars == <<pJobs, pQueue, purged>>

schedVars == <<sState, sDue, scan, cell, sThr, sRuns>>

sysqVars == <<qState, qAlive, qQueue, qThread, qWait, qStart, qRuns>>

anyVars == <<aTc, aAlternatives, aRepeat, aQueue, aPc, aMatch, matchedInfo, aPasses>>

lisVars == <<systemQueueNotifier, systemQueueNotifierUserCount, pipes, lAlts, lBase, lPipes>>

parseVars == <<lc, indent, currentParent, lastCreatedJob, parsed, parseError>>

lastVars == <<schedVars, sysqVars, anyVars, lisVars, parseVars>>

coreVars == <<jobVars, tacsVars, ttcnVars, xaVars, passVars, portVars, campVars,
              dispVars, reschedVars, purgeVars>>

exceptSched == <<coreVars, sysqVars, anyVars, lisVars, parseVars>>

exceptSysQ == <<coreVars, schedVars, anyVars, lisVars, parseVars>>

exceptAny == <<coreVars, schedVars, sysqVars, lisVars, parseVars>>

exceptLis == <<coreVars, schedVars, sysqVars, anyVars, parseVars>>

exceptParse == <<coreVars, schedVars, sysqVars, anyVars, lisVars>>

moreVars == <<dispVars, reschedVars, purgeVars, lastVars>>

restVars == <<xaVars, passVars, portVars, campVars, moreVars>>

vars == <<jobVars, tacsVars, ttcnVars, restVars>>

(***************************************************************************)
(* Job constants (Job class attributes).                                   *)
(***************************************************************************)
STATE_INITIALIZING == "initializing"
STATE_WAITING == "waiting"
STATE_RUNNING == "running"
STATE_KILLING == "killing"
STATE_CANCELLING == "cancelling"
STATE_PAUSED == "paused"
STATE_COMPLETE == "complete"
STATE_CANCELLED == "cancelled"
STATE_KILLED == "killed"
STATE_ERROR == "error"
STATE_CRASHED == "crashed"
FINAL_STATES == {STATE_COMPLETE, STATE_CANCELLED, STATE_KILLED, STATE_ERROR, STATE_CRASHED}

SIGNAL_PAUSE == "pause"
SIGNAL_CANCEL == "cancel"
SIGNAL_KILL == "kill"
SIGNAL_RESUME == "resume"
SIGNAL_ACTION_PERFORMED == "action_performed"
SIGNALS == {SIGNAL_KILL, SIGNAL_PAUSE, SIGNAL_RESUME, SIGNAL_CANCEL, SIGNAL_ACTION_PERFORMED}

SIGKILL == 9

Slots == 1..(MaxJobs + MaxChildren)
\* Threads 1..MaxThreads are started by the scheduler; thread MaxThreads + t is the
\* one the campaign running in thread t starts for its current child.
SchedThreads == 1..MaxThreads
Threads == 1..(2 * MaxThreads)
ChildThread(t) == MaxThreads + t

\* A slot that holds no job object yet.
NoJob == [type |-> "none", id |-> 0, parent |-> 0, state |-> "none", result |-> -1,
          tePid |-> FALSE, startTime |-> FALSE, stopTime |-> FALSE, due |-> FALSE,
          prep |-> "none", preparing |-> FALSE, cancelledWaiting |-> FALSE,
          forked |-> FALSE, teKilled |-> FALSE]

\* Job.__init__ (with the id getNewId returned); prep is _tePreparedPackageDirectory:
\* "none" (None), "ready" (set, the directory exists), "removed" (set, directory deleted).
\* preparing: prepare() has not returned yet. cancelledWaiting and forked are history:
\* handleSignal set the job cancelled while it was waiting; a TE was forked for the job.
\* teKilled is history too: a kill signal to the job killed its TE, which was running.
NewJob(type, id, parent) ==
  [type |-> type, id |-> id, parent |-> parent, state |-> STATE_INITIALIZING,
   result |-> -1, tePid |-> FALSE, startTime |-> FALSE, stopTime |-> FALSE,
   due |-> FALSE, prep |-> "none", preparing |-> TRUE, cancelledWaiting |-> FALSE,
   forked |-> FALSE, teKilled |-> FALSE]

NoThread == [job |-> 0, pc |-> "free", child |-> 0, seen |-> "none"]
NoSignal == [job |-> 0, pc |-> "idle", withPid |-> "none", noPid |-> "none", branch |-> "none"]
NoProc == [st |-> "none", retcode |-> 0, sig |-> 0]

\* AtsJob.cleanup: removes the prepared TE directory, if any.
cleanup(j) ==
  IF j.type = "ats" /\ j.prep = "ready" THEN [j EXCEPT !.prep = "removed"] ELSE j

\* Job.setState on a job object: no change when the state is the same; start and
\* stop times; postRun and cleanup on a final state.
setState(j, state) ==
  IF state = j.state THEN j
  ELSE LET j1 == [j EXCEPT !.state = state] IN
       IF state = STATE_RUNNING /\ ~j.startTime THEN [j1 EXCEPT !.startTime = TRUE]
       ELSE IF state \in FINAL_STATES THEN cleanup([j1 EXCEPT !.stopTime = TRUE])
       ELSE j1

setResult(j, result) == [j EXCEPT !.result = result]

\* getNewId: increments the generator under its mutex and returns the new value.
getNewId(base) == base + 1

Range(s) == {s[i] : i \in 1..Len(s)}

FreeSlots == {s \in Slots : jobs[s].type = "none"}
NextSlot == CHOOSE s \in FreeSlots : \A t \in FreeSlots : s <= t
FreeThreads == {t \in SchedThreads : thr[t].pc = "free"}
NextThread == CHOOSE t \in FreeThreads : \A u \in FreeThreads : t <= u

\* Children of a campaign (its unconditional branch), in creation order.
Children(c) == {s \in Slots : jobs[s].type # "none" /\ jobs[s].parent = c}
RootJobs == {s \in Slots : jobs[s].type # "none" /\ jobs[s].parent = 0}
ChildJobs == {s \in Slots : jobs[s].type # "none" /\ jobs[s].parent # 0}

(***************************************************************************)
(* Initial state: a server that starts with no persisted queue.            *)
(***************************************************************************)
JobInit ==
  /\ genId = 0
  /\ jobs = [s \in Slots |-> NoJob]
  /\ jobQueue = <<>>
  /\ schedSel = <<>>
  /\ thr = [t \in Threads |-> NoThread]
  /\ teProc = [s \in Slots |-> NoProc]
  /\ hs = NoSignal
  /\ nEvent = 0
  /\ dump = [jobs |-> [s \in Slots |-> NoJob], queue |-> <<>>]
  /\ phase = "up"
  /\ nFault = 0

(***************************************************************************)
(* Ws: a client creates a job (Job.__init__) and JobManager.submitJob       *)
(* registers it; the job is then prepared inline (SubmitPrepare).           *)
(***************************************************************************)
PrepareErrorCodes == {20, 25}

\* An environment failure is possible while the failures so far are below the bound.
MayFail == nFault < MaxFaults
Failed(failure) == IF failure THEN nFault + 1 ELSE nFault

SubmitCreate(type) ==
  /\ phase = "up"
  /\ Cardinality(RootJobs) < MaxJobs
  /\ \A s \in Slots : ~jobs[s].preparing
  /\ LET s == NextSlot IN
       /\ genId' = getNewId(genId)
       /\ jobs' = [jobs EXCEPT ![s] = NewJob(type, getNewId(genId), 0)]
       /\ jobQueue' = Append(jobQueue, s)
  /\ UNCHANGED <<schedSel, thr, teProc, hs, nEvent, dump, phase, nFault, tacsVars, ttcnVars, restVars>>

\* An exception that prepare raises outside its try blocks (the creation of the
\* egg: ZipFile, egg.write, egg.close), once the temporary package directory exists.
EggException == -1

\* AtsJob.prepare: WAITING with the TE package prepared, or handleError(code):
\* code 20 is raised once the temporary package directory exists. An exception
\* of the egg creation leaves prepare without any setResult or setState.
AtsPrepared(j, code) ==
  IF code = 0 THEN setState([j EXCEPT !.prep = "ready", !.preparing = FALSE], STATE_WAITING)
  ELSE IF code = EggException THEN [j EXCEPT !.prep = "ready", !.preparing = FALSE]
  ELSE setState(setResult([j EXCEPT !.prep = IF code = 20 THEN "ready" ELSE "none",
                                    !.preparing = FALSE], code), STATE_ERROR)

SubmitPrepareAts(s) ==
  /\ phase = "up"
  /\ jobs[s].preparing /\ jobs[s].type = "ats" /\ jobs[s].parent = 0
  /\ \E code \in {0, EggException} \cup PrepareErrorCodes :
       /\ code = 0 \/ MayFail
       /\ jobs' = [jobs EXCEPT ![s] = AtsPrepared(jobs[s], code)]
       /\ nFault' = Failed(code # 0)
  /\ UNCHANGED <<genId, jobQueue, schedSel, thr, teProc, hs, nEvent, dump, phase, tacsVars, ttcnVars, restVars>>

\* CampaignJob._parse creates one child job per line (each takes a new id), and
\* CampaignJob.prepare ends in WAITING, or in ERROR with result 25 when a line fails.
ParsedJobs(c, k) ==
  LET free == FreeSlots
      \* the k lowest free slots, in order
      pick[i \in 0..k] == IF i = 0 THEN {}
                          ELSE pick[i-1] \cup {CHOOSE s \in free \ pick[i-1] :
                                                 \A u \in free \ pick[i-1] : s <= u}
      rank(s) == Cardinality({u \in pick[k] : u <= s})
  IN [s \in Slots |-> IF s \in pick[k]
                      THEN [NewJob("ats", genId + rank(s), c) EXCEPT !.preparing = FALSE]
                      ELSE jobs[s]]

SubmitPrepareCampaign(s) ==
  /\ phase = "up"
  /\ jobs[s].preparing /\ jobs[s].type = "campaign"
  /\ \E k \in 0..MaxChildren, ok \in BOOLEAN :
       /\ k + Cardinality(ChildJobs) <= MaxChildren
       /\ ok \/ MayFail
       /\ nFault' = Failed(~ok)
       /\ genId' = genId + k
       /\ jobs' = [ParsedJobs(s, k) EXCEPT ![s] =
                     IF ok THEN setState([jobs[s] EXCEPT !.preparing = FALSE], STATE_WAITING)
                     ELSE setState(setResult([jobs[s] EXCEPT !.preparing = FALSE], 25),
                                   STATE_ERROR)]
  /\ UNCHANGED <<jobQueue, schedSel, thr, teProc, hs, nEvent, dump, phase, tacsVars, ttcnVars, restVars>>

\* Time passes beyond the scheduled start time of a job.
Tick(s) ==
  /\ phase = "up"
  /\ jobs[s].parent = 0 /\ jobs[s].state = STATE_WAITING /\ ~jobs[s].due
  /\ jobs' = [jobs EXCEPT ![s].due = TRUE]
  /\ UNCHANGED <<genId, jobQueue, schedSel, thr, teProc, hs, nEvent, dump, phase, nFault, tacsVars, ttcnVars, restVars>>

(***************************************************************************)
(* Scheduler.check: one scan takes the waiting root jobs, then examines    *)
(* them one by one and starts a thread on job.run for each job that is due. *)
(***************************************************************************)
getWaitingRootJobs ==
  SelectSeq(jobQueue, LAMBDA s : jobs[s].parent = 0 /\ jobs[s].state = STATE_WAITING)

SchedScan ==
  /\ phase = "up"
  /\ schedSel = <<>>
  /\ getWaitingRootJobs # <<>>
  /\ schedSel' = getWaitingRootJobs
  /\ UNCHANGED <<genId, jobs, jobQueue, thr, teProc, hs, nEvent, dump, phase, nFault, tacsVars, ttcnVars, restVars>>

StartThread(t, s) ==
  [thr EXCEPT ![t] = [job |-> s, pc |-> IF jobs[s].type = "ats" THEN "move" ELSE "c_run",
                      child |-> 0, seen |-> "none"]]

SchedLaunch ==
  /\ schedSel # <<>>
  /\ LET s == Head(schedSel) IN
       IF jobs[s].due
       THEN /\ FreeThreads # {}
            /\ thr' = StartThread(NextThread, s)
       ELSE thr' = thr
  /\ schedSel' = Tail(schedSel)
  /\ UNCHANGED <<genId, jobs, jobQueue, teProc, hs, nEvent, dump, phase, nFault, tacsVars, ttcnVars, restVars>>

(***************************************************************************)
(* AtsJob.run, in its thread: move the prepared package, fork the TE,      *)
(* wait for it, map the exit status to a result and a state.               *)
(***************************************************************************)
AtsMove(t) ==
  /\ thr[t].pc = "move"
  /\ LET s == thr[t].job IN
       \E envOk \in BOOLEAN :
         /\ envOk \/ MayFail
         /\ nFault' = Failed(~envOk)
         /\ IF envOk /\ jobs[s].prep = "ready"
            THEN /\ jobs' = [jobs EXCEPT ![s].prep = "none"]
                 /\ thr' = [thr EXCEPT ![t].pc = "fork"]
            ELSE /\ jobs' = [jobs EXCEPT ![s] = setState(setResult(jobs[s], 24), STATE_ERROR)]
                 /\ thr' = [thr EXCEPT ![t] = NoThread]
  /\ UNCHANGED <<genId, jobQueue, schedSel, teProc, hs, nEvent, dump, phase, tacsVars, ttcnVars, restVars>>

AtsFork(t) ==
  /\ thr[t].pc = "fork"
  /\ LET s == thr[t].job IN
       \E envOk \in BOOLEAN :
         /\ envOk \/ MayFail
         /\ nFault' = Failed(~envOk)
         /\ IF envOk
            THEN /\ jobs' = [jobs EXCEPT ![s] =
                      setState([jobs[s] EXCEPT !.tePid = TRUE, !.forked = TRUE], STATE_RUNNING)]
                 /\ teProc' = [teProc EXCEPT ![s] = [st |-> "alive", retcode |-> 0, sig |-> 0]]
                 /\ thr' = [thr EXCEPT ![t].pc = "wait"]
            ELSE /\ jobs' = [jobs EXCEPT ![s] =
                      setState(setResult([jobs[s] EXCEPT !.tePid = FALSE], 23), STATE_ERROR)]
                 /\ teProc' = teProc
                 /\ thr' = [thr EXCEPT ![t] = NoThread]
  /\ UNCHANGED <<genId, jobQueue, schedSel, hs, nEvent, dump, phase, tacsVars, ttcnVars, restVars>>

\* The TE process exits by itself: a return code, or a signal other than SIGKILL;
\* return codes other than 0 and 1, and signals, are failures.
TeExits == {<<0, 0>>, <<1, 0>>, <<13, 0>>, <<0, 11>>}

TeExit(s) ==
  /\ teProc[s].st = "alive"
  /\ \E e \in TeExits :
       /\ (e[1] \in {0, 1} /\ e[2] = 0) \/ MayFail
       /\ nFault' = Failed(~(e[1] \in {0, 1} /\ e[2] = 0))
       /\ teProc' = [teProc EXCEPT ![s] = [st |-> "dead", retcode |-> e[1], sig |-> e[2]]]
  /\ UNCHANGED <<genId, jobs, jobQueue, schedSel, thr, hs, nEvent, dump, phase, tacsVars, ttcnVars, restVars>>

\* The end of AtsJob.run, once waitpid returned (retcode, sig).
AtsExited(j, retcode, sig) ==
  LET j0 == [j EXCEPT !.tePid = FALSE] IN
  IF sig > 0
  THEN IF sig = SIGKILL THEN setState(setResult(j0, 2), STATE_KILLED)
       ELSE setState(setResult(j0, 3), STATE_ERROR)
  ELSE IF retcode = 0 \/ retcode = 4 THEN setState(setResult(j0, retcode), STATE_COMPLETE)
       ELSE IF retcode = 1 THEN setState(setResult(j0, retcode), STATE_CANCELLED)
       ELSE setState(setResult(j0, retcode), STATE_ERROR)

AtsWait(t) ==
  /\ thr[t].pc = "wait"
  /\ LET s == thr[t].job IN
       /\ teProc[s].st = "dead"
       /\ jobs' = [jobs EXCEPT ![s] = AtsExited(jobs[s], teProc[s].retcode, teProc[s].sig)]
       /\ teProc' = [teProc EXCEPT ![s] = NoProc]
  /\ thr' = [thr EXCEPT ![t] = NoThread]
  /\ UNCHANGED <<genId, jobQueue, schedSel, hs, nEvent, dump, phase, nFault, tacsVars, ttcnVars, restVars>>

(***************************************************************************)
(* CampaignJob.run, in its thread: RUNNING, then _run walks the children;  *)
(* each child is registered, prepared and run in a thread that is joined.  *)
(***************************************************************************)
CampRun(t) ==
  /\ thr[t].pc = "c_run"
  /\ LET c == thr[t].job IN
       \E signatureOk \in BOOLEAN :
         /\ signatureOk \/ MayFail
         /\ nFault' = Failed(~signatureOk)
         /\ IF signatureOk
            THEN /\ jobs' = [jobs EXCEPT ![c] = setState(jobs[c], STATE_RUNNING)]
                 /\ thr' = [thr EXCEPT ![t].pc = "c_loop"]
            ELSE /\ jobs' = [jobs EXCEPT ![c] =
                      setState(setResult(setState(jobs[c], STATE_RUNNING), 23), STATE_ERROR)]
                 /\ thr' = [thr EXCEPT ![t].pc = "c_fin"]
  /\ UNCHANGED <<genId, jobQueue, schedSel, teProc, hs, nEvent, dump, phase, tacsVars, ttcnVars, restVars>>

NextChildren(c, last) == {s \in Children(c) : s > last}
NextChild(c, last) == CHOOSE s \in NextChildren(c, last) : \A u \in NextChildren(c, last) : s <= u

\* The loop of _run finds the campaign not running any more, or has no child left.
CampLoopEnd(t) ==
  /\ thr[t].pc = "c_loop"
  /\ LET c == thr[t].job IN
       jobs[c].state # STATE_RUNNING \/ NextChildren(c, thr[t].child) = {}
  /\ thr' = [thr EXCEPT ![t].pc = "c_fin"]
  /\ UNCHANGED <<genId, jobs, jobQueue, schedSel, teProc, hs, nEvent, dump, phase, nFault, tacsVars, ttcnVars, restVars>>

\* One iteration of the loop of _run: registerJob(child), child.prepare(), and when
\* prepared, child.preRun() and a thread on child.run.
CampLoopChild(t) ==
  /\ thr[t].pc = "c_loop"
  /\ LET c == thr[t].job IN
       /\ jobs[c].state = STATE_RUNNING
       /\ NextChildren(c, thr[t].child) # {}
       /\ LET s == NextChild(c, thr[t].child) IN
            /\ jobQueue' = Append(jobQueue, s)
            /\ \E code \in {0} \cup PrepareErrorCodes :
                 /\ code = 0 \/ MayFail
                 /\ nFault' = Failed(code # 0)
                 /\ jobs' = [jobs EXCEPT ![s] = AtsPrepared(jobs[s], code)]
                 /\ IF code = 0
                    THEN thr' = [StartThread(ChildThread(t), s) EXCEPT
                                   ![t].pc = "c_join", ![t].child = s]
                    ELSE thr' = [thr EXCEPT ![t].child = s]
  /\ UNCHANGED <<genId, schedSel, teProc, hs, nEvent, dump, phase, tacsVars, ttcnVars, restVars>>

CampJoin(t) ==
  /\ thr[t].pc = "c_join"
  /\ \A u \in Threads : thr[u].job # thr[t].child
  /\ thr' = [thr EXCEPT ![t].pc = "c_loop"]
  /\ UNCHANGED <<genId, jobs, jobQueue, schedSel, teProc, hs, nEvent, dump, phase, nFault, tacsVars, ttcnVars, restVars>>

\* The end of CampaignJob.run: the state is read, then the result and the final
\* state are set from it.
CampFin(t) ==
  /\ thr[t].pc = "c_fin"
  /\ thr' = [thr EXCEPT ![t].pc = "c_set", ![t].seen = jobs[thr[t].job].state]
  /\ UNCHANGED <<genId, jobs, jobQueue, schedSel, teProc, hs, nEvent, dump, phase, nFault, tacsVars, ttcnVars, restVars>>

CampFinished_NoResult(j, seen) ==
  IF seen = STATE_RUNNING THEN setState(j, STATE_COMPLETE)
  ELSE IF seen = STATE_CANCELLING THEN setState(setResult(j, 1), STATE_CANCELLED)
  ELSE j

CampFinished(j, seen) ==
  IF seen = STATE_RUNNING THEN setState(setResult(j, 0), STATE_COMPLETE)
  ELSE IF seen = STATE_CANCELLING THEN setState(setResult(j, 1), STATE_CANCELLED)
  ELSE j

CampSet(t) ==
  /\ thr[t].pc = "c_set"
  /\ jobs' = [jobs EXCEPT ![thr[t].job] = CampFinished(jobs[thr[t].job], thr[t].seen)]
  /\ thr' = [thr EXCEPT ![t] = NoThread]
  /\ UNCHANGED <<genId, jobQueue, schedSel, teProc, hs, nEvent, dump, phase, nFault, tacsVars, ttcnVars, restVars>>

(***************************************************************************)
(* JobManager.sendSignal(id, signal): getJob finds the first job of the    *)
(* queue with that id, and handleSignal reads its state (SendSignal),      *)
(* selects a branch from that state and _tePid (HandleDecide) and carries  *)
(* the branch out (HandleAct).                                             *)
(***************************************************************************)
getJob(id) ==
  LET hits == {i \in 1..Len(jobQueue) : jobs[jobQueue[i]].id = id} IN
  IF hits = {} THEN 0 ELSE jobQueue[CHOOSE i \in hits : \A k \in hits : i <= k]

\* The branch AtsJob.handleSignal takes.
AtsBranch(sig, state, tePid) ==
  IF sig = SIGNAL_KILL /\ state # STATE_KILLED /\ tePid THEN "kill"
  ELSE IF sig = SIGNAL_CANCEL /\ tePid
       THEN IF state = STATE_PAUSED THEN "cancel_paused"
            ELSE IF state = STATE_RUNNING THEN "cancel_running" ELSE "none"
  ELSE IF sig = SIGNAL_CANCEL /\ state = STATE_WAITING THEN "cancel_waiting"
  ELSE IF sig = SIGNAL_PAUSE /\ state = STATE_RUNNING /\ tePid THEN "pause"
  ELSE IF sig = SIGNAL_RESUME /\ state = STATE_PAUSED /\ tePid THEN "resume"
  ELSE IF sig = SIGNAL_ACTION_PERFORMED /\ state = STATE_RUNNING /\ tePid THEN "action"
  ELSE "none"

\* The branch CampaignJob.handleSignal takes.
CampaignBranch(sig, state) ==
  IF sig = SIGNAL_CANCEL
  THEN IF state = STATE_WAITING THEN "cancel_waiting" ELSE "cancelling"
  ELSE "none"

\* handleSignal reads the state of the job first. For an ATS job the branch then
\* depends on _tePid, read next: withPid is the branch taken if it is set, noPid the
\* one taken if it is not. A call that has no branch left to take is over.
Handling(s, sig) ==
  LET j == jobs[s] IN
  IF j.type = "ats"
  THEN IF AtsBranch(sig, j.state, TRUE) = "none" /\ AtsBranch(sig, j.state, FALSE) = "none"
       THEN NoSignal
       ELSE [job |-> s, pc |-> "decide", withPid |-> AtsBranch(sig, j.state, TRUE),
             noPid |-> AtsBranch(sig, j.state, FALSE), branch |-> "none"]
  ELSE IF CampaignBranch(sig, j.state) = "none" THEN NoSignal
       ELSE [job |-> s, pc |-> "act", withPid |-> "none", noPid |-> "none",
             branch |-> CampaignBranch(sig, j.state)]

SendSignal(id, sig) ==
  /\ phase = "up"
  /\ hs.pc = "idle"
  /\ nEvent < MaxEvents
  /\ getJob(id) # 0
  /\ hs' = Handling(getJob(id), sig)
  /\ nEvent' = nEvent + 1
  /\ UNCHANGED <<genId, jobs, jobQueue, schedSel, thr, teProc, dump, phase, nFault, tacsVars, ttcnVars, restVars>>

HandleDecide ==
  /\ hs.pc = "decide"
  /\ LET branch == IF jobs[hs.job].tePid THEN hs.withPid ELSE hs.noPid IN
       hs' = IF branch = "none" THEN NoSignal
             ELSE [job |-> hs.job, pc |-> "act", withPid |-> "none", noPid |-> "none",
                   branch |-> branch]
  /\ UNCHANGED <<genId, jobs, jobQueue, schedSel, thr, teProc, nEvent, dump, phase, nFault, tacsVars, ttcnVars, restVars>>

\* What the selected branch does to the job object. os.kill raises when _tePid
\* is None by now; the exception is caught and logged.
Handled(j, branch) ==
  CASE branch = "kill" -> setState(j, STATE_KILLING)
    [] branch = "cancel_paused" -> setState(j, STATE_CANCELLING)
    [] branch = "cancel_running" -> setState(j, STATE_CANCELLING)
    [] branch = "cancel_waiting" ->
         [setState(j, STATE_CANCELLED) EXCEPT !.cancelledWaiting = (j.state = STATE_WAITING)]
    [] branch = "cancelling" -> setState(j, STATE_CANCELLING)
    [] branch = "pause" -> IF j.tePid THEN setState(j, STATE_PAUSED) ELSE j
    [] branch = "resume" -> IF j.tePid THEN setState(j, STATE_RUNNING) ELSE j
    [] OTHER -> j

\* What the signals the branch sends do to the TE process.
Signalled(p, branch, tePid) ==
  IF ~tePid \/ p.st \notin {"alive", "stopped"} THEN p
  ELSE CASE branch = "kill" -> [st |-> "dead", retcode |-> 0, sig |-> SIGKILL]
         [] branch = "pause" -> [p EXCEPT !.st = "stopped"]
         [] branch = "resume" -> [p EXCEPT !.st = "alive"]
         [] branch = "cancel_paused" -> [p EXCEPT !.st = "alive"]
         [] OTHER -> p

\* The kill branch found the TE process of the job running (or stopped by a pause)
\* and killed it.
KilledRunning(j, p, branch) ==
  [j EXCEPT !.teKilled = @ \/ (branch = "kill" /\ j.tePid /\ p.st \in {"alive", "stopped"})]

HandleAct ==
  /\ hs.pc = "act"
  /\ jobs' = [jobs EXCEPT ![hs.job] =
                KilledRunning(Handled(jobs[hs.job], hs.branch), teProc[hs.job], hs.branch)]
  /\ teProc' = [teProc EXCEPT ![hs.job] = Signalled(teProc[hs.job], hs.branch, jobs[hs.job].tePid)]
  /\ hs' = NoSignal
  /\ UNCHANGED <<genId, jobQueue, schedSel, thr, nEvent, dump, phase, nFault, tacsVars, ttcnVars, restVars>>

(***************************************************************************)
(* Server stop and restart: finalize() stops the scheduler, kills all jobs *)
(* and persists the queue; the process ends; initialize() restores the     *)
(* queue and starts the scheduler again.                                   *)
(***************************************************************************)
FinalizeStop ==
  /\ phase = "up"
  /\ nEvent < MaxEvents
  /\ schedSel = <<>>
  /\ phase' = "stopping"
  /\ nEvent' = nEvent + 1
  /\ UNCHANGED <<genId, jobs, jobQueue, schedSel, thr, teProc, hs, dump, nFault, tacsVars, ttcnVars, restVars>>

\* handleSignal as one call, for killAll.
handleSignal(j, sig) ==
  Handled(j, IF j.type = "ats" THEN AtsBranch(sig, j.state, j.tePid)
             ELSE CampaignBranch(sig, j.state))

killAll ==
  /\ phase = "stopping"
  /\ jobs' = [s \in Slots |->
                IF s \in Range(jobQueue)
                THEN KilledRunning(handleSignal(jobs[s], SIGNAL_KILL), teProc[s],
                                   IF jobs[s].type = "ats"
                                   THEN AtsBranch(SIGNAL_KILL, jobs[s].state, jobs[s].tePid)
                                   ELSE "none")
                ELSE jobs[s]]
  /\ teProc' = [s \in Slots |->
                  IF s \in Range(jobQueue) /\ jobs[s].type = "ats"
                  THEN Signalled(teProc[s], AtsBranch(SIGNAL_KILL, jobs[s].state, jobs[s].tePid),
                                 jobs[s].tePid)
                  ELSE teProc[s]]
  /\ phase' = "killed"
  /\ UNCHANGED <<genId, jobQueue, schedSel, thr, hs, nEvent, dump, nFault, tacsVars, ttcnVars, restVars>>

\* persist pickles the queue (the children of a campaign come along with it), and
\* the server process ends: its threads and the TE processes are gone.
persist ==
  /\ phase = "killed"
  /\ dump' = [jobs |-> [s \in Slots |-> [jobs[s] EXCEPT !.preparing = FALSE]],
              queue |-> jobQueue]
  /\ thr' = [t \in Threads |-> NoThread]
  /\ teProc' = [s \in Slots |-> NoProc]
  /\ hs' = NoSignal
  /\ phase' = "down"
  /\ UNCHANGED <<genId, jobs, jobQueue, schedSel, nEvent, nFault, tacsVars, ttcnVars, restVars>>

restored_KillingKept(j) ==
  IF j.state \in {STATE_RUNNING, STATE_PAUSED, STATE_CANCELLING, STATE_INITIALIZING}
  THEN setState(j, STATE_CRASHED)
  ELSE j

restored_RunningKept(j) ==
  IF j.state \in {STATE_PAUSED, STATE_CANCELLING, STATE_INITIALIZING}
  THEN setState(j, STATE_CRASHED)
  ELSE IF j.state = STATE_KILLING THEN setState(j, STATE_KILLED)
  ELSE j

\* The loop body of restore, on one job of the queue.
restored(j) ==
  IF j.state \in {STATE_RUNNING, STATE_PAUSED, STATE_CANCELLING, STATE_INITIALIZING}
  THEN setState(j, STATE_CRASHED)
  ELSE IF j.state = STATE_KILLING THEN setState(j, STATE_KILLED)
  ELSE j

SetMax(S) == IF S = {} THEN 0 ELSE CHOOSE m \in S : \A x \in S : x <= m

restore ==
  /\ phase = "down"
  /\ jobQueue' = dump.queue
  /\ jobs' = [s \in Slots |-> IF s \in Range(dump.queue) THEN restored(dump.jobs[s])
                              ELSE dump.jobs[s]]
  /\ genId' = SetMax({dump.jobs[s].id : s \in Range(dump.queue)})
  /\ phase' = "up"
  /\ UNCHANGED <<schedSel, thr, teProc, hs, nEvent, dump, nFault, tacsVars, ttcnVars, restVars>>

(***************************************************************************)
(* The job subsystem.                                                      *)
(***************************************************************************)
JobNext ==
  \/ \E type \in {"ats", "campaign"} : SubmitCreate(type)
  \/ \E s \in Slots : SubmitPrepareAts(s)
  \/ \E s \in Slots : SubmitPrepareCampaign(s)
  \/ \E s \in Slots : Tick(s)
  \/ SchedScan
  \/ SchedLaunch
  \/ \E t \in Threads : AtsMove(t)
  \/ \E t \in Threads : AtsFork(t)
  \/ \E s \in Slots : TeExit(s)
  \/ \E t \in Threads : AtsWait(t)
  \/ \E t \in SchedThreads : CampRun(t)
  \/ \E t \in SchedThreads : CampLoopEnd(t)
  \/ \E t \in SchedThreads : CampLoopChild(t)
  \/ \E t \in SchedThreads : CampJoin(t)
  \/ \E t \in SchedThreads : CampFin(t)
  \/ \E t \in SchedThreads : CampSet(t)
  \/ \E id \in 1..(2 * (MaxJobs + MaxChildren)), sig \in SIGNALS : SendSignal(id, sig)
  \/ HandleDecide
  \/ HandleAct
  \/ FinalizeStop
  \/ killAll
  \/ persist
  \/ restore

(***************************************************************************)
(* Properties of the job subsystem.                                        *)
(***************************************************************************)

\* C1: once the state of a job is one of complete, cancelled, killed, error and
\* crashed, no step of the scheduler, of a run thread, of a signal handler or of a
\* restart changes it.
C1_FinalStateNeverChanges ==
  [][\A s \in Slots : jobs[s].state \in FINAL_STATES => jobs'[s].state = jobs[s].state]_vars

\* C2: no two jobs of the registry share an id (what ids above every earlier and
\* every restored id come to).
C2_RegistryIdsUnique ==
  \A i, k \in 1..Len(jobQueue) : i # k => jobs[jobQueue[i]].id # jobs[jobQueue[k]].id

\* C10: a job that a cancel signal took from waiting to cancelled never has a TE
\* forked for it.
C10_CancelledWaitingNeverForked ==
  \A s \in Slots : jobs[s].cancelledWaiting => ~jobs[s].forked

\* C11: an ATS job whose running TE a kill signal killed is in state killing, and
\* then in state killed with result 2, whatever the TE returned.
C11_KilledJobEndsKilledWithResult2 ==
  \A s \in Slots :
    jobs[s].teKilled =>
      \/ jobs[s].state = STATE_KILLING
      \/ jobs[s].state = STATE_KILLED /\ jobs[s].result = 2

\* The job state machine of the specification: the states a job may go to from
\* state a. crashed is set by the restart recovery only and is outside the machine.
C12_Successors(a) ==
  CASE a = STATE_INITIALIZING -> {STATE_WAITING, STATE_ERROR}
    [] a = STATE_WAITING -> {STATE_RUNNING, STATE_CANCELLED}
    [] a = STATE_RUNNING -> {STATE_KILLING, STATE_CANCELLING, STATE_PAUSED, STATE_COMPLETE,
                             STATE_CANCELLED, STATE_KILLED, STATE_ERROR}
    [] a = STATE_PAUSED -> {STATE_RUNNING, STATE_KILLING, STATE_CANCELLING, STATE_COMPLETE,
                            STATE_CANCELLED, STATE_KILLED, STATE_ERROR}
    [] a \in {STATE_KILLING, STATE_CANCELLING} ->
         {STATE_COMPLETE, STATE_CANCELLED, STATE_KILLED, STATE_ERROR}
    [] OTHER -> {}

\* C12: every state change of a job follows the job state machine: initializing goes
\* only to waiting or error, waiting only to running or cancelled; complete, killed
\* and error after preparation are reached only from running, killing, cancelling or
\* paused, and these three transient states are entered only from running or paused.
C12_StateChangesFollowStateMachine ==
  [][\A s \in Slots :
       (jobs[s].state # "none" /\ jobs'[s].state # jobs[s].state
        /\ jobs'[s].state # STATE_CRASHED)
         => jobs'[s].state \in C12_Successors(jobs[s].state)]_vars

\* The state the specification gives a job after a restart, from its persisted state.
C13_Recovered(state) ==
  CASE state \in {"running", "paused", "cancelling", "initializing"} -> "crashed"
    [] state = "killing" -> "killed"
    [] OTHER -> state

\* C13: restore maps the persisted state of every job of the queue: running, paused,
\* cancelling and initializing become crashed, killing becomes killed, every other
\* state is restored unchanged.
C13_RestoreMapsStates ==
  [][(phase = "down" /\ phase' = "up")
       => \A s \in Range(jobQueue') :
            jobs'[s].state = C13_Recovered(dump.jobs[s].state)]_vars

\* A restart found a running job and a job being killed in the persisted queue.
C13_Witness ==
  /\ phase = "up"
  /\ \E s \in Range(dump.queue) :
       dump.jobs[s].state = STATE_RUNNING /\ jobs[s].state = STATE_CRASHED
  /\ \E s \in Range(dump.queue) :
       dump.jobs[s].state = STATE_KILLING /\ jobs[s].state = STATE_KILLED

C21_SchedulerLaunchesWaitingRootJobsDue ==
  [][\A t \in SchedThreads :
       (thr[t].pc = "free" /\ thr'[t].pc # "free") =>
         /\ jobs[thr'[t].job].parent = 0
         /\ jobs[thr'[t].job].state = STATE_WAITING
         /\ jobs[thr'[t].job].due]_vars

\* C22: when the preparation submitJob runs inline ends, the job is registered and
\* is waiting, or is in state error with a result code between 20 and 29.
C22_SubmittedJobWaitingOrPrepareError ==
  [][\A s \in Slots :
       (jobs[s].preparing /\ ~jobs'[s].preparing) =>
         /\ s \in Range(jobQueue')
         /\ \/ jobs'[s].state = STATE_WAITING
            \/ jobs'[s].state = STATE_ERROR /\ jobs'[s].result \in 20..29]_vars

\* C31: a job that a cancel signal takes from waiting to cancelled has result 1
\* when it is cancelled.
C31_CancelledWaitingHasResult1 ==
  [][\A s \in Slots :
       (jobs[s].state = STATE_WAITING /\ jobs'[s].state = STATE_CANCELLED) =>
         jobs'[s].result = 1]_vars

(***************************************************************************)
(* The agent controller (TACS): Ia clients, probes, locks, subscriptions.  *)
(*                                                                         *)
(* The table updates are the critical sections of the Controller methods   *)
(* (between _lock and _unlock); what a method does after _unlock is a      *)
(* later step of the same handler. The handlers of an Ia channel (its      *)
(* requests, its disconnection) run concurrently.                          *)
(***************************************************************************)
MaxChannels == 2     \* Ia channels
MaxProbes == 1       \* probe uris

Channels == 1..MaxChannels
Probes == 1..MaxProbes
SystemProbes == 0    \* the uri "system:probes"
Uris == Probes \cup {SystemProbes}

\* relock is history: the lockProbe of this request found the channel in the locks.
NoRequest == [op |-> "none", uri |-> 0, pc |-> "idle", relock |-> FALSE]
NoProbe == [registered |-> FALSE, locks |-> {}]
NoResponse == [code |-> 0, reason |-> ""]

TacsInit ==
  /\ chan = [c \in Channels |-> "new"]
  /\ iaClients = {}
  /\ probes = [p \in Probes |-> NoProbe]
  /\ subscriptions = [u \in Uris |-> {}]
  /\ req = [c \in Channels |-> NoRequest]
  /\ resp = [c \in Channels |-> NoResponse]
  /\ disc = [c \in Channels |-> {}]
  /\ xa = [p \in Probes |-> "none"]

\* Controller.subscribe and unsubscribe, on the subscription table (a uri without
\* subscribers has no entry).
subscribe(subs, channel, uri) == [subs EXCEPT ![uri] = @ \cup {channel}]
unsubscribe(subs, channel, uri) == [subs EXCEPT ![uri] = @ \ {channel}]

\* IaServer.onConnection: registerIaClient.
registerIaClient(c) ==
  /\ chan[c] = "new"
  /\ chan' = [chan EXCEPT ![c] = "up"]
  /\ iaClients' = iaClients \cup {c}
  /\ UNCHANGED <<probes, subscriptions, req, resp, disc, xa, jobVars, ttcnVars, restVars>>

\* The critical section of unregisterIaClient (IaServer.onDisconnection): the
\* subscriptions of the channel, the channel, and its locks are purged.
unregisterIaClient(c) ==
  /\ chan[c] = "up"
  /\ chan' = [chan EXCEPT ![c] = "down"]
  /\ subscriptions' = [u \in Uris |-> subscriptions[u] \ {c}]
  /\ iaClients' = iaClients \ {c}
  /\ probes' = [p \in Probes |-> [probes[p] EXCEPT !.locks = @ \ {c}]]
  /\ disc' = [disc EXCEPT ![c] = {p \in Probes : c \in probes[p].locks}]
  /\ UNCHANGED <<req, resp, xa, jobVars, ttcnVars, restVars>>

\* unregisterIaClient after _unlock: one probe-unlocked notification per unlocked probe.
DisconnectionNotify(c) ==
  /\ disc[c] # {}
  /\ \E p \in disc[c] : disc' = [disc EXCEPT ![c] = @ \ {p}]
  /\ UNCHANGED <<chan, iaClients, probes, subscriptions, req, resp, xa, jobVars, ttcnVars, restVars>>

\* A request of a connected channel reaches IaServer.onRequest.
OnRequest(c, op, uri) ==
  /\ chan[c] = "up"
  /\ req[c].pc = "idle"
  /\ op \in {"LOCK", "UNLOCK"} => uri \in Probes
  /\ req' = [req EXCEPT ![c] = [op |-> op, uri |-> uri, pc |-> "start", relock |-> FALSE]]
  /\ UNCHANGED <<chan, iaClients, probes, subscriptions, resp, disc, xa, jobVars, ttcnVars, restVars>>

Respond(c, code, reason) ==
  /\ req' = [req EXCEPT ![c] = NoRequest]
  /\ resp' = [resp EXCEPT ![c] = [code |-> code, reason |-> reason]]

\* A lockProbe that grants the lock whoever holds it.
LockAccepted_Always(probe, channel) == TRUE

\* A lockProbe that refuses a probe that is locked, whoever holds the lock.
LockAccepted_Unlocked(probe, channel) == probe.locks = {}

\* lockProbe accepts the lock: the probe is not locked, or locked by this channel.
LockAccepted(probe, channel) == probe.locks = {} \/ channel \in probe.locks

\* The critical section of lockProbe; 404 when the probe is unknown or locked by
\* another channel.
lockProbe(c) ==
  /\ req[c].op = "LOCK" /\ req[c].pc = "start"
  /\ LET p == req[c].uri IN
       IF probes[p].registered /\ LockAccepted(probes[p], c)
       THEN /\ probes' = [probes EXCEPT ![p].locks = @ \cup {c}]
            /\ req' = [req EXCEPT ![c].pc = "subscribe", ![c].relock = c \in probes[p].locks]
            /\ resp' = resp
       ELSE /\ Respond(c, 404, IF probes[p].registered THEN "Probe Already Locked"
                                ELSE "Probe Not Found")
            /\ probes' = probes
  /\ UNCHANGED <<chan, iaClients, subscriptions, disc, xa, jobVars, ttcnVars, restVars>>

\* lockProbe after _unlock: the automatic subscription to the probe's uri.
LockSubscribe(c) ==
  /\ req[c].op = "LOCK" /\ req[c].pc = "subscribe"
  /\ subscriptions' = subscribe(subscriptions, c, req[c].uri)
  /\ req' = [req EXCEPT ![c].pc = "notify"]
  /\ UNCHANGED <<chan, iaClients, probes, resp, disc, xa, jobVars, ttcnVars, restVars>>

\* lockProbe, then onRequest: the probe-locked notification, and the 200 response.
LockNotify(c) ==
  /\ req[c].op = "LOCK" /\ req[c].pc = "notify"
  /\ Respond(c, 200, "OK")
  /\ UNCHANGED <<chan, iaClients, probes, subscriptions, disc, xa, jobVars, ttcnVars, restVars>>

\* An unlockProbe that releases the lock of whoever holds it.
UnlockAccepted_Locked(probe, channel) == probe.locks # {}

\* unlockProbe accepts the unlock: the channel is in the locks of the probe.
UnlockAccepted(probe, channel) == channel \in probe.locks

\* The critical section of unlockProbe; 403 when the channel does not hold the
\* lock, 404 when the probe is unknown.
unlockProbe(c) ==
  /\ req[c].op = "UNLOCK" /\ req[c].pc = "start"
  /\ LET p == req[c].uri IN
       IF probes[p].registered /\ UnlockAccepted(probes[p], c)
       THEN /\ probes' = [probes EXCEPT ![p].locks = @ \ {c}]
            /\ req' = [req EXCEPT ![c].pc = "unsubscribe"]
            /\ resp' = resp
       ELSE /\ IF probes[p].registered
               THEN Respond(c, 403, "Probe Not Locked by This Client")
               ELSE Respond(c, 404, "Probe Not Found")
            /\ probes' = probes
  /\ UNCHANGED <<chan, iaClients, subscriptions, disc, xa, jobVars, ttcnVars, restVars>>

UnlockUnsubscribe(c) ==
  /\ req[c].op = "UNLOCK" /\ req[c].pc = "unsubscribe"
  /\ subscriptions' = unsubscribe(subscriptions, c, req[c].uri)
  /\ req' = [req EXCEPT ![c].pc = "notify"]
  /\ UNCHANGED <<chan, iaClients, probes, resp, disc, xa, jobVars, ttcnVars, restVars>>

UnlockNotify(c) ==
  /\ req[c].op = "UNLOCK" /\ req[c].pc = "notify"
  /\ Respond(c, 200, "OK")
  /\ UNCHANGED <<chan, iaClients, probes, subscriptions, disc, xa, jobVars, ttcnVars, restVars>>

\* onRequest, SUBSCRIBE and UNSUBSCRIBE.
Subscribe(c) ==
  /\ req[c].op = "SUBSCRIBE" /\ req[c].pc = "start"
  /\ subscriptions' = subscribe(subscriptions, c, req[c].uri)
  /\ Respond(c, 200, "OK")
  /\ UNCHANGED <<chan, iaClients, probes, disc, xa, jobVars, ttcnVars, restVars>>

Unsubscribe(c) ==
  /\ req[c].op = "UNSUBSCRIBE" /\ req[c].pc = "start"
  /\ subscriptions' = unsubscribe(subscriptions, c, req[c].uri)
  /\ Respond(c, 200, "OK")
  /\ UNCHANGED <<chan, iaClients, probes, disc, xa, jobVars, ttcnVars, restVars>>

\* The critical section of registerProbe (an agent registers a probe over Xa): a
\* new entry, without locks.
registerProbe(p) ==
  /\ xa[p] = "none"
  /\ probes' = [probes EXCEPT ![p] = [registered |-> TRUE, locks |-> {}]]
  /\ xa' = [xa EXCEPT ![p] = "probe-registered"]
  /\ UNCHANGED <<chan, iaClients, subscriptions, req, resp, disc, jobVars, ttcnVars, restVars>>

\* The critical section of unregisterProbe, for a registered probe.
unregisterProbe(p) ==
  /\ xa[p] = "none"
  /\ probes[p].registered
  /\ probes' = [probes EXCEPT ![p] = NoProbe]
  /\ xa' = [xa EXCEPT ![p] = "probe-unregistered"]
  /\ UNCHANGED <<chan, iaClients, subscriptions, req, resp, disc, jobVars, ttcnVars, restVars>>

\* registerProbe and unregisterProbe after _unlock: the notification.
ProbeNotify(p) ==
  /\ xa[p] # "none"
  /\ xa' = [xa EXCEPT ![p] = "none"]
  /\ UNCHANGED <<chan, iaClients, probes, subscriptions, req, resp, disc, jobVars, ttcnVars, restVars>>

TacsNext ==
  \/ \E c \in Channels : registerIaClient(c)
  \/ \E c \in Channels : unregisterIaClient(c)
  \/ \E c \in Channels : DisconnectionNotify(c)
  \/ \E c \in Channels, op \in {"LOCK", "UNLOCK", "SUBSCRIBE", "UNSUBSCRIBE"}, uri \in Uris :
       OnRequest(c, op, uri)
  \/ \E c \in Channels : lockProbe(c)
  \/ \E c \in Channels : LockSubscribe(c)
  \/ \E c \in Channels : LockNotify(c)
  \/ \E c \in Channels : unlockProbe(c)
  \/ \E c \in Channels : UnlockUnsubscribe(c)
  \/ \E c \in Channels : UnlockNotify(c)
  \/ \E c \in Channels : Subscribe(c)
  \/ \E c \in Channels : Unsubscribe(c)
  \/ \E p \in Probes : registerProbe(p)
  \/ \E p \in Probes : unregisterProbe(p)
  \/ \E p \in Probes : ProbeNotify(p)

(***************************************************************************)
(* Properties of the agent controller.                                     *)
(***************************************************************************)

\* C3: the lock set of every registered probe holds at most one channel.
C3_AtMostOneLockOwner ==
  \A p \in Probes : probes[p].registered => Cardinality(probes[p].locks) <= 1

\* A probe is locked by one channel and the LOCK of another channel was refused.
C3_Witness ==
  \E p \in Probes, c, d \in Channels :
    /\ c # d
    /\ probes[p].registered /\ probes[p].locks = {c}
    /\ resp[d] = [code |-> 404, reason |-> "Probe Already Locked"] /\ chan[d] = "up"

\* C4: once the disconnection of a channel is processed, no probe has the channel
\* in its lock set.
C4_NoLockAfterDisconnection ==
  \A c \in Channels : chan[c] = "down" => \A p \in Probes : c \notin probes[p].locks

\* C5: every channel of every subscription set is a connected Ia client.
C5_SubscribersConnected ==
  \A u \in Uris : subscriptions[u] \subseteq iaClients

\* The step of the handler of channel c that ends the critical section of its
\* LOCK or UNLOCK request on a registered probe.
LockStep(c, op) ==
  /\ req[c].op = op /\ req[c].pc = "start" /\ req'[c] # req[c]
  /\ probes[req[c].uri].registered

\* C23: a LOCK for a registered probe that another channel holds locked is answered
\* with status 403 and changes neither the locks nor the subscriptions.
C23_LockOfLockedProbeRefused403 ==
  [][\A c \in Channels :
       (LockStep(c, "LOCK") /\ probes[req[c].uri].locks \ {c} # {}) =>
         /\ resp'[c].code = 403
         /\ probes' = probes /\ subscriptions' = subscriptions]_vars

\* C24: an UNLOCK goes on to its unsubscription and its probe-unlocked event only
\* when the channel holds the lock of the probe; from any other channel, for an
\* unlocked or an unknown probe, the request ends there with status 403 or 404 and
\* the locks are unchanged.
C24_UnlockOnlyByLockOwner ==
  [][\A c \in Channels :
       (req[c].op = "UNLOCK" /\ req[c].pc = "start" /\ req'[c] # req[c]) =>
         IF probes[req[c].uri].registered /\ c \in probes[req[c].uri].locks
         THEN req'[c].pc = "unsubscribe" /\ c \notin probes'[req[c].uri].locks
         ELSE /\ req'[c] = NoRequest
              /\ resp'[c].code \in {403, 404}
              /\ probes' = probes /\ subscriptions' = subscriptions]_vars

\* The UNLOCK of a channel was refused with 403 while another channel holds the lock.
C24_Witness ==
  \E p \in Probes, c, d \in Channels :
    /\ c # d
    /\ probes[p].registered /\ probes[p].locks = {c}
    /\ resp[d] = [code |-> 403, reason |-> "Probe Not Locked by This Client"]
    /\ chan[d] = "up" /\ req[d] = NoRequest

\* C25: no step of a LOCK of the channel that holds the lock of the probe changes
\* the locks, or the subscriptions when the channel is still subscribed to the
\* probe, and the request is answered with 200.
C25_RelockByOwnerIsNoOp ==
  [][\A c \in Channels :
       (/\ req'[c] # req[c]
        /\ \/ req[c].relock
           \/ LockStep(c, "LOCK") /\ c \in probes[req[c].uri].locks) =>
         /\ probes' = probes
         /\ c \in subscriptions[req[c].uri] => subscriptions' = subscriptions
         /\ req[c].pc = "subscribe" => c \in subscriptions'[req[c].uri]
         /\ req'[c].pc = "idle" => resp'[c].code = 200]_vars

\* The second LOCK of the lock owner has passed lockProbe and its subscription: the
\* channel still holds the lock, alone, and is subscribed to the probe.
C25_Witness ==
  \E c \in Channels :
    /\ req[c].relock /\ req[c].pc = "notify" /\ chan[c] = "up"
    /\ probes[req[c].uri].locks = {c}
    /\ c \in subscriptions[req[c].uri]

\* C39: a channel leaves the lock set of a probe only by the critical section of
\* its own UNLOCK of that probe or by its disconnection; no other step, the
\* unregistration and the registration of the probe included, takes its lock away.
C39_LockEndsOnlyByUnlockOrDisconnection ==
  [][\A c \in Channels, p \in Probes :
       (c \in probes[p].locks /\ c \notin probes'[p].locks) =>
         \/ req[c].op = "UNLOCK" /\ req[c].pc = "start" /\ req[c].uri = p /\ req'[c] # req[c]
         \/ chan[c] = "up" /\ chan'[c] = "down"]_vars

\* C26: when the probe-locked event of a LOCK is dispatched to the subscribers of
\* system:probes, no disconnection that released the lock of the same probe still
\* owes its probe-unlocked event.
C26_UnlockedOfDisconnectionBeforeLocked ==
  [][\A b \in Channels :
       (/\ req[b].op = "LOCK" /\ req[b].pc = "notify" /\ req'[b] = NoRequest
        /\ subscriptions[SystemProbes] # {}) =>
         \A a \in Channels \ {b} : req[b].uri \notin disc[a]]_vars

(***************************************************************************)
(* TTCN-3 runtime, timers (core/TestermanTTCN3.py).  One Timer object and  *)
(* the platform adapter's timer service, which calls triTimeout from its   *)
(* own thread.                                                             *)
(***************************************************************************)
MaxStarts == 3     \* calls of Timer.start

TimerIds == 1..MaxStarts

TimerInit ==
  /\ timerId = 0
  /\ Timers = {}
  /\ pa = [i \in TimerIds |-> "none"]
  /\ cb = [i \in TimerIds |-> "none"]
  /\ timeouts = 0
  /\ timerPc = "idle"
  /\ nextTimerId = 1
  /\ period = 0

\* TestermanPA.triStartTimer: the service arms the timer.
triStartTimer(service, id) == [service EXCEPT ![id] = "armed"]

\* TestermanPA.triStopTimer: an armed timer is disarmed; one that has fired
\* already is not recalled.
triStopTimer(service, id) ==
  IF service[id] = "armed" THEN [service EXCEPT ![id] = "stopped"] ELSE service

\* TestermanPA.triTimerRunning, as Timer.running asks it.
triTimerRunning(id) == id \in TimerIds /\ pa[id] = "armed"

registerTimer(id) == Timers \cup {id}

unregisterTimer(id) == Timers \ {id}

\* Timer.stop.
TimerStopEffect ==
  IF timerId # 0
  THEN /\ pa' = triStopTimer(pa, timerId)
       /\ Timers' = unregisterTimer(timerId)
       /\ timerId' = 0
  ELSE UNCHANGED <<pa, Timers, timerId, restVars>>

\* SystemQueue._remove of the timer's TIMEOUT event: the first occurrence goes.
removeTimeout == IF timeouts > 0 THEN timeouts - 1 ELSE 0

\* Timer.start, first statement: a timer that is started is stopped.
TimerStartStop ==
  /\ timerPc = "idle"
  /\ nextTimerId <= MaxStarts
  /\ TimerStopEffect
  /\ timerPc' = "remove"
  /\ period' = 0
  /\ UNCHANGED <<cb, timeouts, nextTimerId, jobVars, tacsVars, altVars, tcVars, restVars>>

\* Timer.start, second statement: a TIMEOUT event of the timer is removed
\* from the system queue.
TimerStartRemove ==
  /\ timerPc = "remove"
  /\ timeouts' = removeTimeout
  /\ timerPc' = "arm"
  /\ UNCHANGED <<timerId, Timers, pa, cb, nextTimerId, period, jobVars, tacsVars,
                 altVars, tcVars, restVars>>

\* Timer.start, the rest: a new id, registered and armed; start returns.
TimerStartArm ==
  /\ timerPc = "arm"
  /\ timerId' = nextTimerId
  /\ nextTimerId' = nextTimerId + 1
  /\ Timers' = registerTimer(nextTimerId)
  /\ pa' = triStartTimer(pa, nextTimerId)
  /\ timerPc' = "idle"
  /\ period' = nextTimerId
  /\ UNCHANGED <<cb, timeouts, jobVars, tacsVars, altVars, tcVars, restVars>>

\* Timer.stop called by the test component.
TimerStop ==
  /\ timerPc = "idle"
  /\ timerId # 0
  /\ TimerStopEffect
  /\ period' = 0
  /\ UNCHANGED <<cb, timeouts, timerPc, nextTimerId, jobVars, tacsVars, altVars, tcVars, restVars>>

\* The period of an armed timer expires: the service is about to call
\* triTimeout.
PaExpire(id) ==
  /\ pa[id] = "armed"
  /\ pa' = [pa EXCEPT ![id] = "fired"]
  /\ period' = IF period = id THEN 0 ELSE period
  /\ UNCHANGED <<timerId, Timers, cb, timeouts, timerPc, nextTimerId, jobVars, tacsVars,
                 altVars, tcVars, restVars>>

\* triTimeout, under _TimersLock: the timer is taken out of _Timers.
triTimeout(id) ==
  /\ pa[id] = "fired"
  /\ pa' = [pa EXCEPT ![id] = "over"]
  /\ IF id \in Timers
     THEN /\ Timers' = Timers \ {id}
          /\ cb' = [cb EXCEPT ![id] = "popped"]
     ELSE UNCHANGED <<Timers, cb, restVars>>
  /\ UNCHANGED <<timerId, timeouts, timerPc, nextTimerId, period, jobVars, tacsVars,
                 altVars, tcVars, restVars>>

\* Timer._onTimeout, first statement.
OnTimeoutClear(id) ==
  /\ cb[id] = "popped"
  /\ timerId' = 0
  /\ cb' = [cb EXCEPT ![id] = "cleared"]
  /\ UNCHANGED <<Timers, pa, timeouts, timerPc, nextTimerId, period, jobVars, tacsVars,
                 altVars, tcVars, restVars>>

\* Timer._onTimeout, second statement: the TIMEOUT event is posted.
OnTimeoutPost(id) ==
  /\ cb[id] = "cleared"
  /\ timeouts' = timeouts + 1
  /\ cb' = [cb EXCEPT ![id] = "done"]
  /\ UNCHANGED <<timerId, Timers, pa, timerPc, nextTimerId, period, jobVars, tacsVars,
                 altVars, tcVars, restVars>>

\* alt([[timer.TIMEOUT]]) by the test component: the matched event is consumed.
TimerTimeoutAlt ==
  /\ timerPc = "idle"
  /\ timeouts > 0
  /\ timeouts' = removeTimeout
  /\ UNCHANGED <<timerId, Timers, pa, cb, timerPc, nextTimerId, period, jobVars, tacsVars,
                 altVars, tcVars, restVars>>

TimerNext ==
  \/ TimerStartStop
  \/ TimerStartRemove
  \/ TimerStartArm
  \/ TimerStop
  \/ TimerTimeoutAlt
  \/ \E id \in TimerIds : PaExpire(id)
  \/ \E id \in TimerIds : triTimeout(id)
  \/ \E id \in TimerIds : OnTimeoutClear(id)
  \/ \E id \in TimerIds : OnTimeoutPost(id)

\* C7: from the return of Timer.start until the period it started expires, the
\* system queue holds no TIMEOUT event of the timer and the timer is running:
\* it has the id of the period, is registered under it and the service has it
\* armed.
C7_StartedTimerCleanAndRunning ==
  period # 0 =>
    /\ timeouts = 0
    /\ timerId = period
    /\ period \in Timers
    /\ triTimerRunning(timerId)

(***************************************************************************)
(* TTCN-3 runtime, alt on the system queue (core/TestermanTTCN3.py).       *)
(***************************************************************************)
MaxQueue == 2          \* messages in the system queue
MaxPtcs == 1           \* PTCs of a test case
MaxAlternatives == 2   \* alternatives a component passes to alt

Ptcs == 1..MaxPtcs

Components == {0} \cup Ptcs

\* a system queue message: the event and the PTC it is about (0: the timer, or
\* no PTC)
Event(e, s) == [event |-> e, src |-> s]

TIMEOUT_EVENT == Event("timeout", 0)

DONE_EVENT(p) == Event("done", p)

KILLED_EVENT(p) == Event("killed", p)

STOP_COMMAND(p) == Event("stop_ptc", p)

KILL_COMMAND(p) == Event("kill_ptc", p)

ALL_DONE_EVENT == Event("all.c.done", 0)

ALL_KILLED_EVENT == Event("all.c.killed", 0)

ANY_DONE_EVENT == Event("any.c.done", 0)

ANY_KILLED_EVENT == Event("any.c.killed", 0)

NoEvent == Event("none", 0)

StateEvents ==
  {TIMEOUT_EVENT, ALL_DONE_EVENT, ALL_KILLED_EVENT}
    \cup {DONE_EVENT(p) : p \in Ptcs} \cup {KILLED_EVENT(p) : p \in Ptcs}

Commands == {STOP_COMMAND(p) : p \in Ptcs} \cup {KILL_COMMAND(p) : p \in Ptcs}

\* what is posted to the system queue
SystemEvents == StateEvents \cup Commands

\* the branch conditions a component can pass to alt
Conditions == StateEvents \cup {ANY_DONE_EVENT, ANY_KILLED_EVENT}

UserAlternatives == UNION {[1..n -> Conditions] : n \in 1..MaxAlternatives}

NoAlt == [message |-> NoEvent, kept |-> TRUE]

AltInit ==
  /\ sysQ = <<>>
  /\ lastAlt = NoAlt

Count(q, m) == Cardinality({i \in 1..Len(q) : q[i] = m})

\* SystemQueue._remove: list.remove takes the first occurrence out.
Remove(q, m) ==
  IF \E i \in 1..Len(q) : q[i] = m
  THEN LET i == CHOOSE i \in 1..Len(q) : q[i] = m /\ \A k \in 1..(i - 1) : q[k] # m
       IN SubSeq(q, 1, i - 1) \o SubSeq(q, i + 1, Len(q))
  ELSE q

getAltPrefix_None(tc) == <<>>

\* TestComponent._getAltPrefix, as alt inserts it: each alternative at index 0.
getAltPrefix(tc) == <<KILL_COMMAND(tc), STOP_COMMAND(tc)>>

templateMatch(message, template) == message = template

\* alt, the test of one system queue message against one alternative.
Matches(message, condition) ==
  IF condition.event \in {"any.c.done", "any.c.killed"}
  THEN \/ condition.event = "any.c.done" /\ message.event = "done"
       \/ condition.event = "any.c.killed" /\ message.event = "killed"
  ELSE templateMatch(message, condition)

\* alt, whether a matched message is consumed.
Consumed(condition) == condition.event \notin {"any.c.done", "any.c.killed"}

\* _postSystemEvent.
PostSystemEvent(m) ==
  /\ Len(sysQ) < MaxQueue
  /\ sysQ' = Append(sysQ, m)
  /\ UNCHANGED <<lastAlt, jobVars, tacsVars, timerVars, tcVars, restVars>>

\* _removeSystemEvent, as Timer.start and TestComponent.start call it.
RemoveSystemEvent(m) ==
  /\ m \in {TIMEOUT_EVENT, ALL_DONE_EVENT} \cup {DONE_EVENT(p) : p \in Ptcs}
  /\ Count(sysQ, m) > 0
  /\ sysQ' = Remove(sysQ, m)
  /\ UNCHANGED <<lastAlt, jobVars, tacsVars, timerVars, tcVars, restVars>>

\* alt called by component tc with alternatives on the system queue: the
\* messages in queue order, for each the alternatives in order, the first match
\* is taken; without a match alt waits.
Alt(tc, user) ==
  LET alternatives == getAltPrefix(tc) \o user
      Hit(i) == \E k \in 1..Len(alternatives) : Matches(sysQ[i], alternatives[k])
  IN /\ \E i \in 1..Len(sysQ) : Hit(i)
     /\ LET i == CHOOSE i \in 1..Len(sysQ) : Hit(i) /\ \A h \in 1..(i - 1) : ~Hit(h)
            k == CHOOSE k \in 1..Len(alternatives) :
                   /\ Matches(sysQ[i], alternatives[k])
                   /\ \A h \in 1..(k - 1) : ~Matches(sysQ[i], alternatives[h])
        IN /\ sysQ' = IF Consumed(alternatives[k]) THEN Remove(sysQ, sysQ[i]) ELSE sysQ
           /\ lastAlt' = [message |-> sysQ[i],
                          kept |-> Count(sysQ', sysQ[i]) = Count(sysQ, sysQ[i])]
     /\ UNCHANGED <<jobVars, tacsVars, timerVars, tcVars, restVars>>

AltNext ==
  \/ \E m \in SystemEvents : PostSystemEvent(m)
  \/ \E m \in SystemEvents : RemoveSystemEvent(m)
  \/ \E tc \in Components, user \in UserAlternatives : Alt(tc, user)

\* C6: a state event (timeout, done, killed, all done, all killed) matched by
\* an alt stays in the system queue; a stop or kill command matched by an alt
\* is removed from it.
C6_StateEventsStayInQueue ==
  /\ lastAlt.message \in StateEvents => lastAlt.kept
  /\ lastAlt.message \in Commands => ~lastAlt.kept

(***************************************************************************)
(* TTCN-3 runtime, one test case, its components and their verdicts        *)
(* (core/TestermanTTCN3.py).  Component 0 is the MTC; the test case body   *)
(* creates, starts, stops and kills the PTCs.                              *)
(***************************************************************************)
MaxRuns == 2       \* behaviours started on one PTC
MaxCommands == 1   \* stop and kill commands the body posts to one PTC

VERDICT_NONE == "none"

VERDICT_PASS == "pass"

VERDICT_INCONC == "inconc"

VERDICT_FAIL == "fail"

VERDICT_ERROR == "error"

Verdicts == {VERDICT_NONE, VERDICT_PASS, VERDICT_INCONC, VERDICT_FAIL, VERDICT_ERROR}

TC_STATE_INACTIVE == "inactive"

TC_STATE_RUNNING == "running"

TC_STATE_KILLED == "killed"

TC_STATE_STOPPED == "stopped"

NoCall == [tc |-> 0, verdict |-> VERDICT_NONE]

TcInit ==
  /\ tcase = [pc |-> "body", i |-> 0]
  /\ tcState = [p \in Ptcs |-> "none"]
  /\ tcAlive = [p \in Ptcs |-> FALSE]
  /\ verdict = [c \in Components |-> VERDICT_NONE]
  /\ commands = [p \in Ptcs |-> <<>>]
  /\ lastSet = NoCall
  /\ ownSup = VERDICT_NONE
  /\ endSup = VERDICT_NONE
  /\ completed = {}
  /\ tcThread = [p \in Ptcs |-> [runs |-> 0, running |-> FALSE, kills |-> 0]]

\* the lattice none < pass < inconc < fail < error
Below(a, b) ==
  \/ a = VERDICT_NONE /\ b # VERDICT_NONE
  \/ a = VERDICT_PASS /\ b \in {VERDICT_INCONC, VERDICT_FAIL, VERDICT_ERROR}
  \/ a = VERDICT_INCONC /\ b \in {VERDICT_FAIL, VERDICT_ERROR}
  \/ a = VERDICT_FAIL /\ b = VERDICT_ERROR

Sup(a, b) == IF Below(a, b) THEN b ELSE a

SupOf(S) == IF S = {} THEN VERDICT_NONE ELSE CHOOSE v \in S : \A w \in S : w = v \/ Below(w, v)

Overwrites_PassOverInconc(new, cur) ==
  \/ new = VERDICT_ERROR /\ cur # VERDICT_ERROR
  \/ new = VERDICT_FAIL /\ cur \in {VERDICT_NONE, VERDICT_PASS, VERDICT_INCONC}
  \/ new = VERDICT_INCONC /\ cur \in {VERDICT_NONE, VERDICT_PASS}
  \/ new = VERDICT_PASS /\ cur \in {VERDICT_NONE, VERDICT_INCONC}

\* TestComponent._setverdict, the conditions under which _verdict is assigned.
Overwrites(new, cur) ==
  \/ new = VERDICT_ERROR /\ cur # VERDICT_ERROR
  \/ new = VERDICT_FAIL /\ cur \in {VERDICT_NONE, VERDICT_PASS, VERDICT_INCONC}
  \/ new = VERDICT_INCONC /\ cur \in {VERDICT_NONE, VERDICT_PASS}
  \/ new = VERDICT_PASS /\ cur \in {VERDICT_NONE}

\* TestComponent._setverdict: the verdict of a component after the call.
setverdict(cur, new) == IF Overwrites(new, cur) THEN new ELSE cur

Created == {p \in Ptcs : tcState[p] # "none"}

\* TestComponent.alive, for a PTC.
alive(p) ==
  IF tcAlive[p]
  THEN tcState[p] # TC_STATE_KILLED
  ELSE tcState[p] \in {TC_STATE_INACTIVE, TC_STATE_RUNNING}

\* TestCase.create: the next PTC, alive or not.
Create(isAlive) ==
  /\ tcase.pc = "body"
  /\ Created # Ptcs
  /\ LET p == CHOOSE p \in Ptcs \ Created : \A o \in Ptcs \ Created : p <= o
     IN /\ tcState' = [tcState EXCEPT ![p] = TC_STATE_INACTIVE]
        /\ tcAlive' = [tcAlive EXCEPT ![p] = isAlive]
  /\ UNCHANGED <<tcase, verdict, commands, lastSet, ownSup, endSup, completed, tcThread,
                 jobVars, tacsVars, timerVars, altVars, restVars>>

\* TestComponent.start on a PTC that is alive and not running.
Start(p) ==
  /\ tcase.pc = "body"
  /\ p \in Created
  /\ alive(p)
  /\ tcState[p] # TC_STATE_RUNNING
  /\ tcThread[p].runs < MaxRuns
  /\ tcState' = [tcState EXCEPT ![p] = TC_STATE_RUNNING]
  /\ tcThread' = [tcThread EXCEPT ![p].runs = @ + 1, ![p].running = TRUE]
  /\ UNCHANGED <<tcase, tcAlive, verdict, commands, lastSet, ownSup, endSup, completed,
                 jobVars, tacsVars, timerVars, altVars, restVars>>

\* TestComponent.stop and TestComponent.kill on a PTC: a running PTC is posted
\* the command.
Command(p, command) ==
  /\ tcase.pc = "body"
  /\ p \in Created
  /\ tcState[p] = TC_STATE_RUNNING
  /\ Len(commands[p]) < MaxCommands
  /\ commands' = [commands EXCEPT ![p] = Append(@, command)]
  /\ UNCHANGED <<tcase, tcState, tcAlive, verdict, lastSet, ownSup, endSup, completed,
                 tcThread, jobVars, tacsVars, timerVars, altVars, restVars>>

\* setverdict called by the test case body: the local component is the MTC.
MtcSetverdict(v) ==
  /\ tcase.pc = "body"
  /\ verdict' = [verdict EXCEPT ![0] = setverdict(@, v)]
  /\ lastSet' = [tc |-> 0, verdict |-> v]
  /\ ownSup' = Sup(ownSup, v)
  /\ UNCHANGED <<tcase, tcState, tcAlive, commands, endSup, completed, tcThread,
                 jobVars, tacsVars, timerVars, altVars, restVars>>

\* setverdict called by the behaviour running on a PTC.
PtcSetverdict(p, v) ==
  /\ tcThread[p].running
  /\ verdict' = [verdict EXCEPT ![p] = setverdict(@, v)]
  /\ lastSet' = [tc |-> p, verdict |-> v]
  /\ UNCHANGED <<tcase, tcState, tcAlive, commands, ownSup, endSup, completed, tcThread,
                 jobVars, tacsVars, timerVars, altVars, restVars>>

\* the ways the behaviour of a PTC ends
Causes == {"normal", "stopped", "stop_ptc", "kill_ptc", "error"}

forward_verdict_Always(cause) == TRUE

\* TestComponent._start: the forward_verdict its _doStop is called with.
forward_verdict(cause) == cause # "kill_ptc"

\* TestComponent._doStop: the state it leaves the PTC in.
doStop(p) ==
  IF tcAlive[p] THEN TC_STATE_STOPPED ELSE TC_STATE_KILLED

\* TestComponent._start after the behaviour: it returned ("normal"), called
\* stop ("stopped"), an alt of it matched the stop or kill command at the head
\* of its commands, or it raised another exception ("error").  _doStop forwards
\* the verdict to the MTC, or does not, and sets the state; after a kill or an
\* error the thread still owes _doKill.
PtcEnd(p, cause) ==
  /\ tcThread[p].running
  /\ cause \in {"stop_ptc", "kill_ptc"} => commands[p] # <<>> /\ Head(commands[p]) = cause
  /\ LET own == IF cause = "error" THEN setverdict(verdict[p], VERDICT_ERROR) ELSE verdict[p]
     IN /\ verdict' = [verdict EXCEPT
                         ![p] = own,
                         ![0] = IF forward_verdict(cause) THEN setverdict(@, own) ELSE @]
        /\ lastSet' = IF forward_verdict(cause) THEN [tc |-> 0, verdict |-> own]
                      ELSE lastSet
        /\ endSup' = IF cause # "kill_ptc" THEN Sup(endSup, own) ELSE endSup
  /\ completed' = IF cause \in {"normal", "stopped", "stop_ptc"} THEN completed \cup {p}
                  ELSE completed
  /\ commands' = [commands EXCEPT
                    ![p] = IF cause \in {"stop_ptc", "kill_ptc"} THEN Tail(@) ELSE @]
  /\ tcState' = [tcState EXCEPT ![p] = doStop(p)]
  /\ tcThread' = [tcThread EXCEPT
                    ![p].running = FALSE,
                    ![p].kills = IF cause \in {"kill_ptc", "error"} THEN @ + 1 ELSE @]
  /\ UNCHANGED <<tcase, tcAlive, ownSup, jobVars, tacsVars, timerVars, altVars, restVars>>

\* TestComponent._doKill, owed by a thread that ended on a kill or an error.
PtcDoKill(p) ==
  /\ tcThread[p].kills > 0
  /\ tcState' = [tcState EXCEPT ![p] = TC_STATE_KILLED]
  /\ tcThread' = [tcThread EXCEPT ![p].kills = @ - 1]
  /\ UNCHANGED <<tcase, tcAlive, verdict, commands, lastSet, ownSup, endSup, completed,
                 jobVars, tacsVars, timerVars, altVars, restVars>>

\* TestCase.execute: the body returns, is stopped, or raises another exception,
\* which sets the MTC verdict to error; _finalize follows.
BodyEnd(cause) ==
  /\ tcase.pc = "body"
  /\ IF cause = "error"
     THEN /\ verdict' = [verdict EXCEPT ![0] = setverdict(@, VERDICT_ERROR)]
          /\ lastSet' = [tc |-> 0, verdict |-> VERDICT_ERROR]
          /\ ownSup' = Sup(ownSup, VERDICT_ERROR)
     ELSE UNCHANGED <<verdict, lastSet, ownSup, restVars>>
  /\ tcase' = [pc |-> "stop", i |-> 1]
  /\ UNCHANGED <<tcState, tcAlive, commands, endSup, completed, tcThread,
                 jobVars, tacsVars, timerVars, altVars, restVars>>

\* TestCase._finalize, first loop: ptc.stop() on each PTC in turn.
FinalizeStopPtc ==
  /\ tcase.pc = "stop"
  /\ IF tcase.i \in Created
     THEN /\ commands' = [commands EXCEPT
                            ![tcase.i] = IF tcState[tcase.i] = TC_STATE_RUNNING
                                         THEN Append(@, "stop_ptc") ELSE @]
          /\ tcase' = [tcase EXCEPT !.i = @ + 1]
     ELSE /\ tcase' = [pc |-> "done", i |-> 1]
          /\ UNCHANGED commands
  /\ UNCHANGED <<tcState, tcAlive, verdict, lastSet, ownSup, endSup, completed, tcThread,
                 jobVars, tacsVars, timerVars, altVars, restVars>>

\* TestCase._finalize, second loop: ptc.done() on each PTC in turn returns once
\* the PTC is not running; after the last one the test case has ended and
\* execute reads the MTC verdict.
FinalizeDonePtc ==
  /\ tcase.pc = "done"
  /\ IF tcase.i \in Created
     THEN /\ tcState[tcase.i] # TC_STATE_RUNNING
          /\ tcase' = [tcase EXCEPT !.i = @ + 1]
     ELSE tcase' = [pc |-> "ended", i |-> 0]
  /\ UNCHANGED <<tcState, tcAlive, verdict, commands, lastSet, ownSup, endSup, completed,
                 tcThread, jobVars, tacsVars, timerVars, altVars, restVars>>

TcNext ==
  \/ \E isAlive \in BOOLEAN : Create(isAlive)
  \/ \E p \in Ptcs : Start(p)
  \/ \E p \in Ptcs, command \in {"stop_ptc", "kill_ptc"} : Command(p, command)
  \/ \E v \in Verdicts : MtcSetverdict(v)
  \/ \E p \in Ptcs, v \in Verdicts : PtcSetverdict(p, v)
  \/ \E p \in Ptcs, cause \in Causes : PtcEnd(p, cause)
  \/ \E p \in Ptcs : PtcDoKill(p)
  \/ \E cause \in {"normal", "stopped", "error"} : BodyEnd(cause)
  \/ FinalizeStopPtc
  \/ FinalizeDonePtc

\* C37: when a PTC is started, no stop or kill command posted to it during an
\* earlier run is left in the system queue.
C37_NoCommandOfEarlierRunAtStart ==
  [][\A p \in Ptcs :
       tcThread'[p].runs > tcThread[p].runs => commands'[p] = <<>>]_vars

\* C8: the verdict of a component never moves downward in the lattice
\* none < pass < inconc < fail < error: whenever it changes, the new verdict is
\* strictly higher than the old one.
C8_VerdictOnlyMovesUp ==
  [][\A c \in Components : verdict'[c] # verdict[c] => Below(verdict[c], verdict'[c])]_vars

\* C8, the case: the last setverdict asked for a verdict below the one the
\* component has, and the component kept its verdict.
C8_Witness ==
  /\ lastSet # NoCall
  /\ Below(lastSet.verdict, verdict[lastSet.tc])
  /\ lastSet.verdict # VERDICT_NONE

MaxXaChannels == 2
MaxAgents == 2

XaChannels == 1..MaxXaChannels
Agents == 1..MaxAgents

\* A PROBE-EVENT notification: its Reason header and the uri of its body.
Notification(reason, uri) == [reason |-> reason, uri |-> uri]

Notifications ==
  {Notification(r, a) : r \in {"agent-registered", "agent-unregistered"}, a \in Agents}
    \cup {Notification(r, p) : r \in {"probe-registered", "probe-unregistered"}, p \in Probes}

NoXaRequest == [method |-> "none", scheme |-> "none", uri |-> 0, code |-> 0]

XaInit ==
  /\ xaChan = [c \in XaChannels |-> "up"]
  /\ agents = [a \in Agents |-> 0]
  /\ xaProbes = [p \in Probes |-> 0]
  /\ agentUri = [p \in Probes |-> 0]
  /\ xaResp = NoXaRequest
  /\ xaOut = [n \in Notifications |-> 0]

\* The calls of _dispatchNotification a handler made, one for each notification of N.
Dispatched(N) == [n \in Notifications |-> IF n \in N THEN 1 ELSE 0]

\* Controller.registerAgent and registerProbe: the entry of the uri is set, whatever
\* it was, and the event is dispatched.
registerAgent(channel, uri) ==
  /\ agents' = [agents EXCEPT ![uri] = channel]
  /\ xaOut' = Dispatched({Notification("agent-registered", uri)})
  /\ UNCHANGED <<xaProbes, agentUri>>

\* agent is the Agent-Uri header of the request; the agents table is not looked at.
XaRegisterProbe(channel, uri, agent) ==
  /\ xaProbes' = [xaProbes EXCEPT ![uri] = channel]
  /\ agentUri' = [agentUri EXCEPT ![uri] = agent]
  /\ xaOut' = Dispatched({Notification("probe-registered", uri)})
  /\ UNCHANGED agents

\* Controller.unregisterAgent: every agent and every probe of the channel is
\* deleted; an event is dispatched for each probe deleted, and one for the agent
\* the loop over the agents table found last (a), if it found any.
AgentsOf(channel) == {a \in Agents : agents[a] = channel}
ProbesOf(channel) == {p \in Probes : xaProbes[p] = channel}

unregisterAgent(channel) ==
  /\ agents' = [a \in Agents |-> IF a \in AgentsOf(channel) THEN 0 ELSE agents[a]]
  /\ xaProbes' = [p \in Probes |-> IF p \in ProbesOf(channel) THEN 0 ELSE xaProbes[p]]
  /\ agentUri' = [p \in Probes |-> IF p \in ProbesOf(channel) THEN 0 ELSE agentUri[p]]
  /\ \/ /\ AgentsOf(channel) = {}
        /\ xaOut' = Dispatched({Notification("probe-unregistered", p) : p \in ProbesOf(channel)})
     \/ \E a \in AgentsOf(channel) :
          xaOut' = Dispatched({Notification("probe-unregistered", p) : p \in ProbesOf(channel)}
                                \cup {Notification("agent-unregistered", a)})

\* XaServer.onRequest, REGISTER.
Register(channel, scheme, uri) ==
  /\ xaChan[channel] = "up"
  /\ \/ /\ scheme = "agent" /\ uri \in Agents
        /\ registerAgent(channel, uri)
        /\ xaResp' = [method |-> "REGISTER", scheme |-> scheme, uri |-> uri, code |-> 200]
     \/ /\ scheme = "probe" /\ uri \in Probes
        /\ \E agent \in Agents : XaRegisterProbe(channel, uri, agent)
        /\ xaResp' = [method |-> "REGISTER", scheme |-> scheme, uri |-> uri, code |-> 200]
     \/ /\ scheme = "other" /\ uri = 0
        /\ xaResp' = [method |-> "REGISTER", scheme |-> scheme, uri |-> uri, code |-> 501]
        /\ xaOut' = Dispatched({})
        /\ UNCHANGED <<agents, xaProbes, agentUri>>
  /\ UNCHANGED <<xaChan, jobVars, tacsVars, ttcnVars, passVars, portVars, campVars, moreVars>>

\* XaServer.onRequest, UNREGISTER. For an agent the uri of the request is not used;
\* unregisterProbe on a uri without entry raises before it dispatches anything.
Unregister(channel, scheme, uri) ==
  /\ xaChan[channel] = "up"
  /\ \/ /\ scheme = "agent" /\ uri \in Agents
        /\ unregisterAgent(channel)
        /\ xaResp' = [method |-> "UNREGISTER", scheme |-> scheme, uri |-> uri, code |-> 200]
     \/ /\ scheme = "probe" /\ uri \in Probes /\ xaProbes[uri] # 0
        /\ xaProbes' = [xaProbes EXCEPT ![uri] = 0]
        /\ agentUri' = [agentUri EXCEPT ![uri] = 0]
        /\ xaOut' = Dispatched({Notification("probe-unregistered", uri)})
        /\ xaResp' = [method |-> "UNREGISTER", scheme |-> scheme, uri |-> uri, code |-> 200]
        /\ UNCHANGED agents
     \/ /\ \/ scheme = "probe" /\ uri \in Probes /\ xaProbes[uri] = 0
           \/ scheme = "other" /\ uri = 0
        /\ xaResp' = [method |-> "UNREGISTER", scheme |-> scheme, uri |-> uri, code |-> 501]
        /\ xaOut' = Dispatched({})
        /\ UNCHANGED <<agents, xaProbes, agentUri>>
  /\ UNCHANGED <<xaChan, jobVars, tacsVars, ttcnVars, passVars, portVars, campVars, moreVars>>

\* XaServer.onDisconnection.
onDisconnection(channel) ==
  /\ xaChan[channel] = "up"
  /\ xaChan' = [xaChan EXCEPT ![channel] = "down"]
  /\ unregisterAgent(channel)
  /\ xaResp' = NoXaRequest
  /\ UNCHANGED <<jobVars, tacsVars, ttcnVars, passVars, portVars, campVars, moreVars>>

XaNext ==
  \/ \E c \in XaChannels, scheme \in {"agent", "probe", "other"}, uri \in 0..(MaxAgents + MaxProbes) :
       Register(c, scheme, uri)
  \/ \E c \in XaChannels, scheme \in {"agent", "probe", "other"}, uri \in 0..(MaxAgents + MaxProbes) :
       Unregister(c, scheme, uri)
  \/ \E c \in XaChannels : onDisconnection(c)

\* C15: every accepted REGISTER of an agent or of a probe dispatches the matching
\* agent-registered or probe-registered event, and every unregistration (an entry
\* leaves the table by an UNREGISTER, by the disconnection of the channel, or by
\* one after the other) dispatches the matching unregistered event exactly once.
C15_RegistrationEventsDispatched ==
  [][xaVars' # xaVars =>
       /\ \A a \in Agents :
            /\ xaResp' = [method |-> "REGISTER", scheme |-> "agent", uri |-> a, code |-> 200]
                 => xaOut'[Notification("agent-registered", a)] = 1
            /\ xaOut'[Notification("agent-unregistered", a)]
                 = IF agents[a] # 0 /\ agents'[a] = 0 THEN 1 ELSE 0
       /\ \A p \in Probes :
            /\ xaResp' = [method |-> "REGISTER", scheme |-> "probe", uri |-> p, code |-> 200]
                 => xaOut'[Notification("probe-registered", p)] = 1
            /\ xaOut'[Notification("probe-unregistered", p)]
                 = IF xaProbes[p] # 0 /\ xaProbes'[p] = 0 THEN 1 ELSE 0]_vars

\* The probes an agent owns: the entries whose agent-uri is the uri of the agent.
C28_Owned(a) == {p \in Probes : xaProbes[p] # 0 /\ agentUri[p] = a}

\* C28: when the channel of a registered agent disconnects, the agent and every
\* probe it owns leave the tables, with one probe-unregistered event for each of
\* these probes and one agent-unregistered event for the agent; after it no probe
\* is registered whose agent-uri is the uri of an agent that is not registered.
C28_AgentLossRemovesItsProbes ==
  [][\A c \in XaChannels :
       (xaChan[c] = "up" /\ xaChan'[c] = "down") =>
         \A a \in AgentsOf(c) :
           /\ agents'[a] = 0
           /\ xaOut'[Notification("agent-unregistered", a)] = 1
           /\ \A p \in C28_Owned(a) :
                /\ xaProbes'[p] = 0
                /\ xaOut'[Notification("probe-unregistered", p)] = 1]_vars

(***************************************************************************)
(* TTCN-3 runtime, alt on the ports of a test component                    *)
(* (core/TestermanTTCN3.py): the passes of alt over its ports, while other *)
(* components send to these ports.                                         *)
(***************************************************************************)
MaxPorts == 2
MaxPortQueue == 2
MaxMessages == 2

Ports == 1..MaxPorts
Messages == 1..MaxMessages
AnyTemplate == 0              \* the template any()
Templates == Messages \cup {AnyTemplate}

NoPopped == [port |-> 0, message |-> 0, late |-> FALSE, match |-> FALSE]

PassInit ==
  /\ portQ = [p \in Ports |-> <<>>]
  /\ altPc = "out"
  /\ portAlternatives = [p \in Ports |-> <<>>]
  /\ toVisit = {}
  /\ popped = NoPopped

\* Port._enqueue on a started port, called by the thread of the sender.
Enqueue(port, message) ==
  /\ Len(portQ[port]) < MaxPortQueue
  /\ portQ' = [portQ EXCEPT ![port] =
                 Append(@, [message |-> message, late |-> altPc = "pass"])]
  /\ UNCHANGED <<altPc, portAlternatives, toVisit, popped, jobVars, tacsVars, ttcnVars, xaVars, portVars, campVars, moreVars>>

\* The ports alt watches: those with an alternative.
Watched(alts) == {p \in Ports : alts[p] # <<>>}

\* The loop over portAlternatives.items() begins: a pass.
BeginPass(alts) ==
  /\ altPc' = "pass"
  /\ toVisit' = Watched(alts)
  /\ portQ' = [p \in Ports |-> [i \in 1..Len(portQ[p]) |-> [portQ[p][i] EXCEPT !.late = FALSE]]]

\* alt is called: step 1 sorts the alternatives by port, step 2 begins its first pass.
AltEnter(alts) ==
  /\ altPc = "out"
  /\ Watched(alts) # {}
  /\ portAlternatives' = alts
  /\ BeginPass(alts)
  /\ UNCHANGED <<popped, jobVars, tacsVars, ttcnVars, xaVars, portVars, campVars, moreVars>>

\* templateMatch of a port message with the templates of the alternatives of its port.
PortMatch(message, templates) ==
  \E k \in 1..Len(templates) :
    templates[k] = AnyTemplate \/ templateMatch(message, templates[k])

\* The pass examines one port: the first message of its queue, if any, is popped
\* and compared with the templates of the port; on a match the actions run and alt
\* returns, or repeats from a new pass.
PassPort(port) ==
  /\ altPc = "pass"
  /\ port \in toVisit
  /\ IF portQ[port] = <<>>
     THEN /\ toVisit' = toVisit \ {port}
          /\ UNCHANGED <<portQ, altPc, popped>>
     ELSE LET head == Head(portQ[port])
              match == PortMatch(head.message, portAlternatives[port])
          IN /\ popped' = [port |-> port, message |-> head.message, late |-> head.late,
                           match |-> match]
             /\ IF match
                THEN /\ toVisit' = {}
                     /\ \/ altPc' = "out"
                        \/ altPc' = "select"
                ELSE /\ toVisit' = toVisit \ {port}
                     /\ altPc' = altPc
             /\ portQ' = [portQ EXCEPT ![port] = Tail(@)]
  /\ UNCHANGED <<portAlternatives, jobVars, tacsVars, ttcnVars, xaVars, portVars, campVars, moreVars>>

\* The pass ends without a match: alt waits in select.
PassEnd ==
  /\ altPc = "pass"
  /\ toVisit = {}
  /\ altPc' = "select"
  /\ UNCHANGED <<portQ, portAlternatives, toVisit, popped, jobVars, tacsVars, ttcnVars, xaVars, portVars, campVars, moreVars>>

\* select returns, on a notification or after one second: the next pass.
Select ==
  /\ altPc = "select"
  /\ BeginPass(portAlternatives)
  /\ UNCHANGED <<portAlternatives, popped, jobVars, tacsVars, ttcnVars, xaVars, portVars, campVars, moreVars>>

PassNext ==
  \/ \E p \in Ports, m \in Messages : Enqueue(p, m)
  \/ \E alts \in [Ports -> {<<>>} \cup {<<x>> : x \in Templates}] : AltEnter(alts)
  \/ \E p \in Ports : PassPort(p)
  \/ PassEnd
  \/ Select

\* C16: within one pass of alt over its ports, no template is matched against a
\* message that was enqueued after the pass began.
C16_NoMessageOfThePassCompared ==
  popped.port # 0 => ~popped.late

(***************************************************************************)
(* TTCN-3 runtime, port connections and mappings (core/TestermanTTCN3.py): *)
(* connect, disconnect, port_map and port_unmap called by a test case.     *)
(* Port 1 is owned by one component, the other ports by another one.       *)
(***************************************************************************)
MaxTcPorts == 3
MaxTsiPorts == 1
MaxMappings == 2     \* entries of the _mappedPorts list of one TSI port

TcPorts == 1..MaxTcPorts
TsiPortNames == 1..MaxTsiPorts

\* Port._tc.
PortTc(port) == IF port = 1 THEN 1 ELSE 2

NoOp == [op |-> "none", a |-> 0, b |-> 0, raised |-> FALSE]

PortInit ==
  /\ connectedPorts = [p \in TcPorts |-> <<>>]
  /\ mappedTsiPort = [p \in TcPorts |-> 0]
  /\ mappedPorts = [s \in TsiPortNames |-> <<>>]
  /\ TsiPorts = {}
  /\ lastOp = NoOp

InList(x, list) == \E i \in 1..Len(list) : list[i] = x

\* list.remove(x): the first occurrence of x leaves the list.
ListRemove(list, x) ==
  LET i == CHOOSE i \in 1..Len(list) : list[i] = x /\ \A h \in 1..(i - 1) : list[h] # x
  IN SubSeq(list, 1, i - 1) \o SubSeq(list, i + 1, Len(list))

_isMapped(port) == mappedTsiPort[port] # 0
_isConnectedTo(portA, portB) == InList(portB, connectedPorts[portA])

\* connect: the restrictions on the owners of the ports connected to portA and portB.
ConnectRestricted(portA, portB) ==
  \/ \E i \in 1..Len(connectedPorts[portA]) : PortTc(connectedPorts[portA][i]) = PortTc(portB)
  \/ \E i \in 1..Len(connectedPorts[portB]) : PortTc(connectedPorts[portB][i]) = PortTc(portA)

connect(portA, portB) ==
  /\ IF _isConnectedTo(portA, portB)
     THEN /\ lastOp' = [op |-> "connect", a |-> portA, b |-> portB, raised |-> FALSE]
          /\ UNCHANGED connectedPorts
     ELSE IF _isMapped(portA) \/ _isMapped(portB) \/ ConnectRestricted(portA, portB)
     THEN /\ lastOp' = [op |-> "connect", a |-> portA, b |-> portB, raised |-> TRUE]
          /\ UNCHANGED connectedPorts
     ELSE /\ lastOp' = [op |-> "connect", a |-> portA, b |-> portB, raised |-> FALSE]
          /\ connectedPorts' =
               LET first == [connectedPorts EXCEPT ![portA] = Append(@, portB)]
               IN [first EXCEPT ![portB] = Append(@, portA)]
  /\ UNCHANGED <<mappedTsiPort, mappedPorts, TsiPorts, jobVars, tacsVars, ttcnVars, xaVars, passVars, campVars, moreVars>>

disconnect(portA, portB) ==
  /\ connectedPorts' =
       LET first == IF InList(portA, connectedPorts[portB])
                    THEN [connectedPorts EXCEPT ![portB] = ListRemove(@, portA)]
                    ELSE connectedPorts
       IN IF InList(portB, first[portA])
          THEN [first EXCEPT ![portA] = ListRemove(@, portB)]
          ELSE first
  /\ lastOp' = [op |-> "disconnect", a |-> portA, b |-> portB, raised |-> FALSE]
  /\ UNCHANGED <<mappedTsiPort, mappedPorts, TsiPorts, jobVars, tacsVars, ttcnVars, xaVars, passVars, campVars, moreVars>>

\* TestermanSA.triMap: the status it returns.
triMap == {"TR_OK", "TR_Error"}

port_map(port, tsiPort) ==
  /\ \/ /\ _isMapped(port)
        /\ lastOp' = [op |-> "map", a |-> port, b |-> tsiPort, raised |-> TRUE]
        /\ UNCHANGED <<mappedTsiPort, mappedPorts, TsiPorts>>
     \/ /\ ~_isMapped(port)
        /\ Len(mappedPorts[tsiPort]) < MaxMappings
        /\ \E status \in triMap :
             IF status = "TR_Error"
             THEN /\ lastOp' = [op |-> "map", a |-> port, b |-> tsiPort, raised |-> TRUE]
                  /\ UNCHANGED <<mappedTsiPort, mappedPorts, TsiPorts>>
             ELSE /\ lastOp' = [op |-> "map", a |-> port, b |-> tsiPort, raised |-> FALSE]
                  /\ TsiPorts' = TsiPorts \cup {tsiPort}
                  /\ mappedTsiPort' = [mappedTsiPort EXCEPT ![port] = tsiPort]
                  /\ mappedPorts' = [mappedPorts EXCEPT ![tsiPort] = Append(@, port)]
  /\ UNCHANGED <<connectedPorts, jobVars, tacsVars, ttcnVars, xaVars, passVars, campVars, moreVars>>

port_unmap(port, tsiPort) ==
  /\ IF tsiPort \in TsiPorts
     THEN LET list == IF InList(port, mappedPorts[tsiPort])
                      THEN ListRemove(mappedPorts[tsiPort], port)
                      ELSE mappedPorts[tsiPort]
          IN /\ mappedTsiPort' = [mappedTsiPort EXCEPT ![port] = 0]
             /\ mappedPorts' = [mappedPorts EXCEPT ![tsiPort] = list]
             /\ TsiPorts' = IF list = <<>> THEN TsiPorts \ {tsiPort} ELSE TsiPorts
     ELSE UNCHANGED <<mappedTsiPort, mappedPorts, TsiPorts>>
  /\ lastOp' = [op |-> "unmap", a |-> port, b |-> tsiPort, raised |-> FALSE]
  /\ UNCHANGED <<connectedPorts, jobVars, tacsVars, ttcnVars, xaVars, passVars, campVars, moreVars>>

PortNext ==
  \/ \E a, b \in TcPorts : connect(a, b)
  \/ \E a, b \in TcPorts : disconnect(a, b)
  \/ \E p \in TcPorts, s \in TsiPortNames : port_map(p, s)
  \/ \E p \in TcPorts, s \in TsiPortNames : port_unmap(p, s)

\* C17: no port is at the same time mapped to a TSI port and connected to another
\* port, whatever connect, disconnect, map and unmap calls were made.
C17_NeverMappedAndConnected ==
  \A p \in TcPorts : ~(_isMapped(p) /\ connectedPorts[p] # <<>>)

(***************************************************************************)
(* Job subsystem, one campaign run (core/JobManager.py): CampaignJob.run   *)
(* and _run walk the tree of child jobs that _parse built, while cancel    *)
(* signals are handled by other threads.                                   *)
(*                                                                         *)
(* The campaign source is either empty or the tree                         *)
(*     group            (4)                                                *)
(*      ats d           (5)                                                *)
(*     ats a            (1)                                                *)
(*      ats b           (2)                                                *)
(*      on_error ats c  (3)                                                *)
(* A child ATS is abstracted to its preparation (it succeeds or fails) and *)
(* to the result of its run.                                               *)
(***************************************************************************)
MaxCancels == 2

BRANCH_SUCCESS == 0
BRANCH_ERROR == 1
BRANCH_UNCONDITIONAL == 2

Campaign == 0
Kids == 1..7
GroupJobs == {4, 6}
AtsKids == Kids \ GroupJobs
ChildResults == {0, 1}
Walkers == {Campaign} \cup GroupJobs

\* Job._childBranches, as _parse fills it from the source.
childBranches(tree, job, branch) ==
  IF tree = "empty" THEN <<>>
  ELSE IF tree = "nested"
  THEN CASE job = Campaign /\ branch = BRANCH_UNCONDITIONAL -> <<4>>
         [] job = 4 /\ branch = BRANCH_UNCONDITIONAL -> <<5, 6>>
         [] job = 6 /\ branch = BRANCH_UNCONDITIONAL -> <<7>>
         [] OTHER -> <<>>
  ELSE CASE job = Campaign /\ branch = BRANCH_UNCONDITIONAL -> <<4, 1>>
         [] job = 4 /\ branch = BRANCH_UNCONDITIONAL -> <<5>>
         [] job = 1 /\ branch = BRANCH_SUCCESS -> <<2>>
         [] job = 1 /\ branch = BRANCH_ERROR -> <<3>>
         [] OTHER -> <<>>

\* TEFactory.getMetadata(source).getSignature(): it returns the signature of the
\* campaign, or raises.
getSignature == {"ok", "raises"}

NoKid == [state |-> STATE_INITIALIZING, result |-> -1, late |-> FALSE]

Frame(calling, branch) == [calling |-> calling, branch |-> branch, idx |-> 1, pc |-> "entry"]

CampaignInit ==
  /\ camp = [NewJob("campaign", 1, 0) EXCEPT !.state = STATE_WAITING, !.preparing = FALSE]
  /\ source \in [tree : {"empty", "tree", "nested"}, signature : getSignature]
  /\ kids = [k \in Kids |-> NoKid]
  /\ walk = [w \in Walkers |-> <<>>]
  /\ runPc = "waiting"
  /\ cancelPc = [pc |-> "idle", state |-> "none"]
  /\ nCancel = 0
  /\ delivered = FALSE
  /\ groupThreads = <<>>
  /\ toJoin = <<>>

Top(w) == walk[w][Len(walk[w])]
Pop(w) == SubSeq(walk[w], 1, Len(walk[w]) - 1)
SetTop(w, frame) == [walk[w] EXCEPT ![Len(walk[w])] = frame]
Current(w) == childBranches(source.tree, Top(w).calling, Top(w).branch)[Top(w).idx]

\* Scheduler.check picks the waiting campaign and starts a thread on its run.
CampaignScheduled ==
  /\ runPc = "waiting"
  /\ camp.state = STATE_WAITING
  /\ runPc' = "picked"
  /\ UNCHANGED <<camp, source, kids, walk, cancelPc, nCancel, delivered, groupThreads, toJoin,
                 jobVars, tacsVars, ttcnVars, xaVars, passVars, portVars, moreVars>>

\* CampaignJob.run: setState(running) and the call of _run on the unconditional
\* branch of the campaign.
CampaignRun ==
  /\ runPc = "picked"
  /\ camp' = setState(camp, STATE_RUNNING)
  /\ walk' = [walk EXCEPT ![Campaign] = <<Frame(Campaign, BRANCH_UNCONDITIONAL)>>]
  /\ runPc' = "walk"
  /\ UNCHANGED <<source, kids, cancelPc, nCancel, delivered, groupThreads, toJoin,
                 jobVars, tacsVars, ttcnVars, xaVars, passVars, portVars, moreVars>>

\* _run, from its entry to its loop: it returns if the campaign is not running; if
\* the signature cannot be extracted it sets result 23 and error, and returns.
RunEntry(w) ==
  /\ walk[w] # <<>>
  /\ Top(w).pc = "entry"
  /\ IF camp.state # STATE_RUNNING
     THEN /\ walk' = [walk EXCEPT ![w] = Pop(w)]
          /\ UNCHANGED camp
     ELSE IF source.signature = "raises"
     THEN /\ camp' = setState(setResult(camp, 23), STATE_ERROR)
          /\ walk' = [walk EXCEPT ![w] = Pop(w)]
     ELSE /\ walk' = [walk EXCEPT ![w] = SetTop(w, [Top(w) EXCEPT !.pc = "loop"])]
          /\ UNCHANGED camp
  /\ UNCHANGED <<source, kids, runPc, cancelPc, nCancel, delivered, groupThreads, toJoin,
                 jobVars, tacsVars, ttcnVars, xaVars, passVars, portVars, moreVars>>

\* _run, the head of one iteration of its loop: the loop is over, or the campaign
\* is not running any more, or the child is a parallel group and a thread is
\* started on it, or the child is a job to prepare.
RunLoop(w) ==
  /\ walk[w] # <<>>
  /\ Top(w).pc = "loop"
  /\ IF Top(w).idx > Len(childBranches(source.tree, Top(w).calling, Top(w).branch))
        \/ camp.state # STATE_RUNNING
     THEN walk' = [walk EXCEPT ![w] = Pop(w)]
     ELSE IF Current(w) \in GroupJobs
     THEN walk' = [walk EXCEPT ![w] = SetTop(w, [Top(w) EXCEPT !.idx = @ + 1]),
                               ![Current(w)] = <<Frame(Current(w), BRANCH_UNCONDITIONAL)>>]
     ELSE walk' = [walk EXCEPT ![w] = SetTop(w, [Top(w) EXCEPT !.pc = "prepare"])]
  /\ groupThreads' = IF /\ Top(w).idx <= Len(childBranches(source.tree, Top(w).calling, Top(w).branch))
                        /\ camp.state = STATE_RUNNING
                        /\ Current(w) \in GroupJobs
                     THEN Append(groupThreads, Current(w)) ELSE groupThreads
  /\ UNCHANGED <<camp, source, kids, runPc, cancelPc, nCancel, delivered, toJoin,
                 jobVars, tacsVars, ttcnVars, xaVars, passVars, portVars, moreVars>>

\* _run registers the child and prepares it; prepare sets waiting, or a result and
\* error when it fails.
RunPrepare(w) ==
  /\ walk[w] # <<>>
  /\ Top(w).pc = "prepare"
  /\ \/ /\ kids' = [kids EXCEPT ![Current(w)] =
                      [state |-> STATE_WAITING, result |-> -1, late |-> delivered]]
        /\ walk' = [walk EXCEPT ![w] = SetTop(w, [Top(w) EXCEPT !.pc = "start"])]
     \/ \E code \in PrepareErrorCodes :
          /\ kids' = [kids EXCEPT ![Current(w)] =
                        [state |-> STATE_ERROR, result |-> code, late |-> delivered]]
          /\ walk' = [walk EXCEPT ![w] = SetTop(w, [Top(w) EXCEPT !.pc = "join"])]
  /\ UNCHANGED <<camp, source, runPc, cancelPc, nCancel, delivered, groupThreads, toJoin,
                 jobVars, tacsVars, ttcnVars, xaVars, passVars, portVars, moreVars>>

\* _run starts the thread of the prepared child.
RunStart(w) ==
  /\ walk[w] # <<>>
  /\ Top(w).pc = "start"
  /\ kids' = [kids EXCEPT ![Current(w)].state = STATE_RUNNING,
                          ![Current(w)].late = @ \/ delivered]
  /\ walk' = [walk EXCEPT ![w] = SetTop(w, [Top(w) EXCEPT !.pc = "join"])]
  /\ UNCHANGED <<camp, source, runPc, cancelPc, nCancel, delivered, groupThreads, toJoin,
                 jobVars, tacsVars, ttcnVars, xaVars, passVars, portVars, moreVars>>

\* The run of a child ends with a result.
KidRun(k) ==
  /\ kids[k].state = STATE_RUNNING
  /\ \E r \in ChildResults :
       kids' = [kids EXCEPT ![k].result = r,
                            ![k].state = IF r = 0 THEN STATE_COMPLETE ELSE STATE_ERROR]
  /\ UNCHANGED <<camp, source, walk, runPc, cancelPc, nCancel, delivered, groupThreads, toJoin,
                 jobVars, tacsVars, ttcnVars, xaVars, passVars, portVars, moreVars>>

nextBranch_Success(ret) == BRANCH_SUCCESS

\* _run, the branch selected by the result of the child.
nextBranch(ret) == IF ret = 0 THEN BRANCH_SUCCESS ELSE BRANCH_ERROR

\* _run, once the child is over (or was not prepared): it reads the result and
\* calls itself on the selected branch of the child.
RunRecurse(w) ==
  /\ walk[w] # <<>>
  /\ Top(w).pc = "join"
  /\ kids[Current(w)].state # STATE_RUNNING
  /\ walk' = [walk EXCEPT ![w] =
                Append(SetTop(w, [Top(w) EXCEPT !.idx = @ + 1, !.pc = "loop"]),
                       Frame(Current(w), nextBranch(kids[Current(w)].result)))]
  /\ UNCHANGED <<camp, source, kids, runPc, cancelPc, nCancel, delivered, groupThreads, toJoin,
                 jobVars, tacsVars, ttcnVars, xaVars, passVars, portVars, moreVars>>

\* run after _run returned: _waitForGroupsCompletion takes the list of the group
\* threads started so far (getList returns a copy).
WaitForGroupsCompletion ==
  /\ runPc = "walk"
  /\ walk[Campaign] = <<>>
  /\ toJoin' = groupThreads
  /\ runPc' = "join"
  /\ UNCHANGED <<camp, source, kids, walk, cancelPc, nCancel, delivered, groupThreads,
                 jobVars, tacsVars, ttcnVars, xaVars, passVars, portVars, moreVars>>

\* _waitForGroupsCompletion joins the next thread of its list, which returns once
\* the thread is over; after the last one it returns.
GroupJoin ==
  /\ runPc = "join"
  /\ IF toJoin = <<>>
     THEN /\ runPc' = "finish"
          /\ UNCHANGED toJoin
     ELSE /\ walk[Head(toJoin)] = <<>>
          /\ toJoin' = Tail(toJoin)
          /\ UNCHANGED runPc
  /\ UNCHANGED <<camp, source, kids, walk, cancelPc, nCancel, delivered, groupThreads,
                 jobVars, tacsVars, ttcnVars, xaVars, passVars, portVars, moreVars>>

\* run reads the state: running, and it will set result 0 and complete; else it
\* reads the state again: cancelling, and it will set result 1 and cancelled.
CampaignFinish ==
  /\ runPc = "finish"
  /\ runPc' = IF camp.state = STATE_RUNNING THEN "complete" ELSE "elif"
  /\ UNCHANGED <<camp, source, kids, walk, cancelPc, nCancel, delivered, groupThreads, toJoin,
                 jobVars, tacsVars, ttcnVars, xaVars, passVars, portVars, moreVars>>

CampaignElif ==
  /\ runPc = "elif"
  /\ runPc' = IF camp.state = STATE_CANCELLING THEN "cancelled" ELSE "done"
  /\ UNCHANGED <<camp, source, kids, walk, cancelPc, nCancel, delivered, groupThreads, toJoin,
                 jobVars, tacsVars, ttcnVars, xaVars, passVars, portVars, moreVars>>

CampaignSet ==
  /\ runPc \in {"complete", "cancelled"}
  /\ camp' = CampFinished(camp, IF runPc = "complete" THEN STATE_RUNNING ELSE STATE_CANCELLING)
  /\ runPc' = "done"
  /\ UNCHANGED <<source, kids, walk, cancelPc, nCancel, delivered, groupThreads, toJoin,
                 jobVars, tacsVars, ttcnVars, xaVars, passVars, portVars, moreVars>>

\* sendSignal(id, cancel): CampaignJob.handleSignal reads the state of the campaign.
CampaignCancel ==
  /\ nCancel < MaxCancels
  /\ cancelPc.pc = "idle"
  /\ cancelPc' = [pc |-> "act", state |-> camp.state]
  /\ nCancel' = nCancel + 1
  /\ UNCHANGED <<camp, source, kids, walk, runPc, delivered, groupThreads, toJoin,
                 jobVars, tacsVars, ttcnVars, xaVars, passVars, portVars, moreVars>>

\* handleSignal then sets cancelled if the state read was waiting, cancelling if not.
CampaignCancelSet ==
  /\ cancelPc.pc = "act"
  /\ camp' = Handled(camp, CampaignBranch(SIGNAL_CANCEL, cancelPc.state))
  /\ delivered' = (delivered \/ (camp.state = STATE_RUNNING /\ camp'.state = STATE_CANCELLING))
  /\ cancelPc' = [pc |-> "idle", state |-> "none"]
  /\ UNCHANGED <<source, kids, walk, runPc, nCancel, groupThreads, toJoin,
                 jobVars, tacsVars, ttcnVars, xaVars, passVars, portVars, moreVars>>

CampaignNext ==
  \/ CampaignScheduled
  \/ CampaignRun
  \/ \E w \in Walkers : RunEntry(w)
  \/ \E w \in Walkers : RunLoop(w)
  \/ \E w \in Walkers : RunPrepare(w)
  \/ \E w \in Walkers : RunStart(w)
  \/ \E k \in AtsKids : KidRun(k)
  \/ \E w \in Walkers : RunRecurse(w)
  \/ WaitForGroupsCompletion
  \/ GroupJoin
  \/ CampaignFinish
  \/ CampaignElif
  \/ CampaignSet
  \/ CampaignCancel
  \/ CampaignCancelSet

(***************************************************************************)
(* Properties of the campaign run.                                         *)
(***************************************************************************)

\* The campaign registered and prepared the child (and ran it, if it was prepared).
Taken(k) == kids[k].state # STATE_INITIALIZING

\* The campaign is through with the child: its run is over, or its preparation failed.
Over(k) == kids[k].state \in {STATE_COMPLETE, STATE_ERROR}

\* C18: for every child the campaign runs, with result r, the children of its
\* success branch are run only if r = 0 and those of its error branch only if r is
\* not 0 (a failed preparation has a non-zero result), never both; and when the run
\* of a campaign that was never cancelled is over, those of the success branch
\* were run if r = 0 and those of the error branch if r is not 0.
C18_BranchFollowsResult ==
  \A k \in AtsKids :
    LET success == Range(childBranches(source.tree, k, BRANCH_SUCCESS))
        error == Range(childBranches(source.tree, k, BRANCH_ERROR))
    IN /\ \A b \in success : Taken(b) => Over(k) /\ kids[k].result = 0
       /\ \A b \in error : Taken(b) => Over(k) /\ kids[k].result # 0
       /\ ~\E b \in success, c \in error : Taken(b) /\ Taken(c)
       /\ (runPc = "done" /\ nCancel = 0 /\ Taken(k)) =>
            /\ kids[k].result = 0 => \A b \in success : Taken(b)
            /\ kids[k].result # 0 => \A b \in error : Taken(b)

\* The campaign was not cancelled; child 1 ended with result 1, the child on its
\* error branch was run and the child on its success branch was not.
C18_Witness ==
  /\ runPc = "done" /\ nCancel = 0
  /\ kids[1].state = STATE_ERROR /\ kids[1].result = 1
  /\ Over(3) /\ ~Taken(2)

C20_CancelledCampaignStopsAndEndsCancelled ==
  delivered =>
    /\ camp.state \in {STATE_CANCELLING, STATE_CANCELLED}
    /\ \A k \in AtsKids : ~kids[k].late
    /\ runPc = "done" => camp.state = STATE_CANCELLED /\ camp.result = 1

(***************************************************************************)
(* Specifications.                                                         *)
(***************************************************************************)
\* C32: when the run of the campaign sets it complete or cancelled, no thread of a
\* parallel group it started, from its own run or from the run of another group, is
\* still in _run or waiting for a child job.
C32_GroupsOverWhenCampaignFinishes ==
  [][(runPc \in {"complete", "cancelled"} /\ runPc' = "done") =>
       \A g \in GroupJobs : walk[g] = <<>>]_vars

(***************************************************************************)
(* The agent controller (TACS): Controller._dispatchNotification and the   *)
(* mutex of the tables (_lock, _unlock), for the subscribers of one uri.   *)
(* Threads dispatch notifications; between two dispatches a thread         *)
(* subscribes or unsubscribes a channel, which takes the same mutex.       *)
(***************************************************************************)
MaxDispatchers == 2

DThreads == 1..MaxDispatchers

NoDispatch == [pc |-> "idle", todo |-> {}]

DispatchInit ==
  /\ mutex = 0
  /\ subscribers = {}
  /\ dispatch = [t \in DThreads |-> NoDispatch]
  /\ lastSend = [channel |-> 0, locked |-> FALSE]

\* Controller.subscribe and unsubscribe: their critical section.
TableSubscribe(t, channel) ==
  /\ dispatch[t].pc = "idle" /\ mutex = 0
  /\ subscribers' = subscribers \cup {channel}
  /\ UNCHANGED <<mutex, dispatch, lastSend, jobVars, tacsVars, ttcnVars, xaVars, passVars,
                 portVars, campVars, reschedVars, purgeVars, lastVars>>

TableUnsubscribe(t, channel) ==
  /\ dispatch[t].pc = "idle" /\ mutex = 0
  /\ subscribers' = subscribers \ {channel}
  /\ UNCHANGED <<mutex, dispatch, lastSend, jobVars, tacsVars, ttcnVars, xaVars, passVars,
                 portVars, campVars, reschedVars, purgeVars, lastVars>>

\* A thread calls _dispatchNotification and reaches self._lock().
DispatchCall(t) ==
  /\ dispatch[t].pc = "idle"
  /\ dispatch' = [dispatch EXCEPT ![t].pc = "lock"]
  /\ UNCHANGED <<mutex, subscribers, lastSend, jobVars, tacsVars, ttcnVars, xaVars, passVars,
                 portVars, campVars, reschedVars, purgeVars, lastVars>>

\* self._lock(): the thread acquires the mutex once it is free.
_lock(t) ==
  /\ dispatch[t].pc = "lock" /\ mutex = 0
  /\ mutex' = t
  /\ dispatch' = [dispatch EXCEPT ![t].pc = "test"]
  /\ UNCHANGED <<subscribers, lastSend, jobVars, tacsVars, ttcnVars, xaVars, passVars,
                 portVars, campVars, reschedVars, purgeVars, lastVars>>

\* No entry for the uri: _unlock and return; else the loop over the entry begins.
DispatchTest(t) ==
  /\ dispatch[t].pc = "test"
  /\ IF subscribers = {}
     THEN /\ mutex' = 0
          /\ dispatch' = [dispatch EXCEPT ![t] = NoDispatch]
     ELSE /\ mutex' = mutex
          /\ dispatch' = [dispatch EXCEPT ![t] = [pc |-> "send", todo |-> subscribers]]
  /\ UNCHANGED <<subscribers, lastSend, jobVars, tacsVars, ttcnVars, xaVars, passVars,
                 portVars, campVars, reschedVars, purgeVars, lastVars>>

\* One iteration of the loop: self._iaServer.sendNotification(channel, notification),
\* whose exception is caught.
sendNotification(t) ==
  /\ dispatch[t].pc = "send" /\ dispatch[t].todo # {}
  /\ LET channel == CHOOSE c \in dispatch[t].todo : \A d \in dispatch[t].todo : c <= d IN
       /\ lastSend' = [channel |-> channel, locked |-> mutex = t]
       /\ dispatch' = [dispatch EXCEPT ![t].todo = @ \ {channel}]
  /\ UNCHANGED <<mutex, subscribers, jobVars, tacsVars, ttcnVars, xaVars, passVars,
                 portVars, campVars, reschedVars, purgeVars, lastVars>>

\* After the loop: self._unlock().
_unlock(t) ==
  /\ dispatch[t].pc = "send" /\ dispatch[t].todo = {}
  /\ mutex' = IF mutex = t THEN 0 ELSE mutex
  /\ dispatch' = [dispatch EXCEPT ![t] = NoDispatch]
  /\ UNCHANGED <<subscribers, lastSend, jobVars, tacsVars, ttcnVars, xaVars, passVars,
                 portVars, campVars, reschedVars, purgeVars, lastVars>>

DispatchNext ==
  \/ \E t \in DThreads, c \in Channels : TableSubscribe(t, c)
  \/ \E t \in DThreads, c \in Channels : TableUnsubscribe(t, c)
  \/ \E t \in DThreads : DispatchCall(t)
  \/ \E t \in DThreads : _lock(t)
  \/ \E t \in DThreads : DispatchTest(t)
  \/ \E t \in DThreads : sendNotification(t)
  \/ \E t \in DThreads : _unlock(t)

\* C27: no notification is sent on a channel by a thread that holds the mutex of
\* the tables.
C27_NoSendWhileMutexHeld ==
  lastSend.channel # 0 => ~lastSend.locked

(***************************************************************************)
(* Job.reschedule, on one ATS job that is submitted, prepared, launched    *)
(* by the scheduler once its scheduled start time is past, signalled, and  *)
(* run to its end, while time passes.                                      *)
(***************************************************************************)
MaxTime == 3
MaxReschedules == 2

Times == 0..MaxTime

\* Job.setScheduledStartTime(timestamp), for a timestamp that is not None.
setScheduledStartTime(timestamp) == IF timestamp < now THEN now ELSE timestamp

\* The job is created at time 1 for an instant run (None: now + 1) or for a later one.
RescheduleInit ==
  /\ rJob = NewJob("ats", 1, 0)
  /\ now = 1
  /\ scheduledStartTime \in {t \in Times : t > 1}
  /\ rescheduled = [n |-> 0, at |-> 0, ok |-> FALSE]

\* time.time() increases.
RsTick ==
  /\ now < MaxTime
  /\ now' = now + 1
  /\ UNCHANGED <<rJob, scheduledStartTime, rescheduled, jobVars, tacsVars, ttcnVars, xaVars,
                 passVars, portVars, campVars, dispVars, purgeVars, lastVars>>

\* submitJob: prepare, inline.
RsPrepare ==
  /\ rJob.preparing
  /\ \E code \in {0} \cup PrepareErrorCodes : rJob' = AtsPrepared(rJob, code)
  /\ UNCHANGED <<now, scheduledStartTime, rescheduled, jobVars, tacsVars, ttcnVars, xaVars,
                 passVars, portVars, campVars, dispVars, purgeVars, lastVars>>

\* Scheduler.check finds the job waiting with its scheduled start time past and
\* starts job.run, which forks the TE and sets the job running.
RsRun ==
  /\ rJob.state = STATE_WAITING /\ scheduledStartTime < now
  /\ rJob' = setState([rJob EXCEPT !.tePid = TRUE, !.forked = TRUE], STATE_RUNNING)
  /\ UNCHANGED <<now, scheduledStartTime, rescheduled, jobVars, tacsVars, ttcnVars, xaVars,
                 passVars, portVars, campVars, dispVars, purgeVars, lastVars>>

\* sendSignal(id, sig): handleSignal on the job.
RsSignal(sig) ==
  /\ ~rJob.preparing
  /\ rJob' = handleSignal(rJob, sig)
  /\ rJob' # rJob
  /\ UNCHANGED <<now, scheduledStartTime, rescheduled, jobVars, tacsVars, ttcnVars, xaVars,
                 passVars, portVars, campVars, dispVars, purgeVars, lastVars>>

\* The TE exits (by itself, on the SIGINT of a cancel, on the SIGKILL of a kill) and
\* job.run ends.
RsExit ==
  /\ rJob.tePid /\ rJob.state # STATE_PAUSED
  /\ rJob' = CASE rJob.state = STATE_KILLING -> AtsExited(rJob, 0, SIGKILL)
               [] rJob.state = STATE_CANCELLING -> AtsExited(rJob, 1, 0)
               [] OTHER -> AtsExited(rJob, 0, 0)
  /\ UNCHANGED <<now, scheduledStartTime, rescheduled, jobVars, tacsVars, ttcnVars, xaVars,
                 passVars, portVars, campVars, dispVars, purgeVars, lastVars>>

\* rescheduleJob(id, at) for the job: Job.reschedule(at).
reschedule(at) ==
  /\ rescheduled.n < MaxReschedules
  /\ IF scheduledStartTime > now
     THEN /\ scheduledStartTime' = setScheduledStartTime(at)
          /\ rescheduled' = [n |-> rescheduled.n + 1, at |-> at, ok |-> TRUE]
     ELSE /\ scheduledStartTime' = scheduledStartTime
          /\ rescheduled' = [n |-> rescheduled.n + 1, at |-> at, ok |-> FALSE]
  /\ UNCHANGED <<rJob, now, jobVars, tacsVars, ttcnVars, xaVars,
                 passVars, portVars, campVars, dispVars, purgeVars, lastVars>>

RescheduleNext ==
  \/ RsTick
  \/ RsPrepare
  \/ RsRun
  \/ \E sig \in SIGNALS : RsSignal(sig)
  \/ RsExit
  \/ \E at \in Times : reschedule(at)

\* C29: a reschedule call returns True only for a job that is initializing or
\* waiting; for a job in any other state it returns False and leaves the scheduled
\* start time as it was.
C29_RescheduleOnlyBeforeStart ==
  [][rescheduled'.n # rescheduled.n =>
       IF rJob.state \in {STATE_INITIALIZING, STATE_WAITING}
       THEN TRUE
       ELSE ~rescheduled'.ok /\ scheduledStartTime' = scheduledStartTime]_vars

(***************************************************************************)
(* JobManager.purgeJobs, on a queue of jobs in any of the states the job   *)
(* subsystem leaves them in: a job has a stop time once it reached a final *)
(* state, and keeps it if its state changes afterwards.                    *)
(***************************************************************************)
MaxPurgeJobs == 3
MaxStopTime == 2
MaxPurges == 2

PJobs == 1..MaxPurgeJobs
PurgeStates == {STATE_WAITING, STATE_RUNNING, STATE_CANCELLING, STATE_COMPLETE, STATE_ERROR}

\* The parent of a job was created before it and has been started; a job that is
\* in a final state has a stop time.
PurgeInit ==
  /\ pJobs \in [PJobs -> [parent : 0..(MaxPurgeJobs - 1), state : PurgeStates,
                           stopTime : 0..MaxStopTime]]
  /\ \A j \in PJobs :
       /\ pJobs[j].parent < j
       /\ pJobs[j].parent # 0 =>
            pJobs[pJobs[j].parent].state # STATE_WAITING \/ pJobs[pJobs[j].parent].stopTime # 0
       /\ pJobs[j].state \in FINAL_STATES => pJobs[j].stopTime # 0
  /\ pQueue = [j \in PJobs |-> j]
  /\ purged = [n |-> 0, older_than |-> 0, count |-> 0]

RECURSIVE ParentsStopped(_)
ParentsStopped(parent) ==
  IF parent = 0 THEN TRUE
  ELSE IF pJobs[parent].stopTime = 0 THEN FALSE
  ELSE ParentsStopped(pJobs[parent].parent)

isBottomUpTreeCompleted(job) ==
  IF pJobs[job].stopTime = 0 THEN FALSE ELSE ParentsStopped(pJobs[job].parent)

purgeJobs(older_than) ==
  /\ purged.n < MaxPurges
  /\ LET keptQueue == SelectSeq(pQueue, LAMBDA job :
                         \/ ~isBottomUpTreeCompleted(job)
                         \/ ~(pJobs[job].stopTime # 0 /\ pJobs[job].stopTime < older_than))
     IN /\ pQueue' = keptQueue
        /\ purged' = [n |-> purged.n + 1, older_than |-> older_than,
                      count |-> Len(pQueue) - Len(keptQueue)]
  /\ UNCHANGED <<pJobs, jobVars, tacsVars, ttcnVars, xaVars,
                 passVars, portVars, campVars, dispVars, reschedVars, lastVars>>

PurgeNext == \E older_than \in 0..(MaxStopTime + 1) : purgeJobs(older_than)

RECURSIVE C30_TreeFinal(_)
C30_TreeFinal(job) ==
  IF job = 0 THEN TRUE
  ELSE pJobs[job].state \in FINAL_STATES /\ C30_TreeFinal(pJobs[job].parent)

\* The jobs of the queue C30 says a purge with this threshold removes.
C30_Purgeable(older_than) ==
  {job \in Range(pQueue) :
     C30_TreeFinal(job) /\ pJobs[job].stopTime # 0 /\ pJobs[job].stopTime < older_than}

\* C30: a purge removes from the queue exactly the jobs that are in a final state,
\* whose ancestors are all in a final state, and whose stop time is older than the
\* threshold; it keeps the other jobs, in their order, and returns the number of
\* jobs it removed.
C30_PurgeRemovesOldFinalTrees ==
  [][purged'.n # purged.n =>
       /\ pQueue' = SelectSeq(pQueue, LAMBDA job : job \notin C30_Purgeable(purged'.older_than))
       /\ purged'.count = Cardinality(C30_Purgeable(purged'.older_than))]_vars

(***************************************************************************)
(* Scheduler.run and Scheduler.check on root jobs that submitJob left      *)
(* waiting: check starts one thread per due job of its scan; the target of *)
(* a thread is a lambda that reads the local variable job of the check     *)
(* call when the thread comes to run it, and job.run sets the job running  *)
(* later still (after the fork of the TE, after the campaign start event). *)
(***************************************************************************)
MaxSchedJobs == 2
MaxScans == 2
MaxSchedThreads == 3

SJobs == 1..MaxSchedJobs
Scans == 1..MaxScans
SThreads == 1..MaxSchedThreads
NoSThread == [pc |-> "free", scan |-> 0, for |-> 0, job |-> 0]

SchedInit ==
  /\ sState = [j \in SJobs |-> STATE_WAITING]
  /\ sDue = [j \in SJobs |-> FALSE]
  /\ scan = [n |-> 0, pc |-> "wait", jobs |-> <<>>]
  /\ cell = [c \in Scans |-> 0]
  /\ sThr = [t \in SThreads |-> NoSThread]
  /\ sRuns = [j \in SJobs |-> 0]

\* time.time() passes the scheduled start time of a job.
SDue(j) ==
  /\ ~sDue[j]
  /\ sDue' = [sDue EXCEPT ![j] = TRUE]
  /\ UNCHANGED <<sState, scan, cell, sThr, sRuns, exceptSched>>

\* Scheduler.run: the wait on _notifyEvent ends (interval elapsed, or notify() of a
\* submission) and check() is called: jobs = getWaitingRootJobs().
check ==
  /\ scan.pc = "wait"
  /\ scan.n < MaxScans
  /\ scan' = [n |-> scan.n + 1, pc |-> "for",
              jobs |-> SelectSeq([j \in SJobs |-> j], LAMBDA j : sState[j] = STATE_WAITING)]
  /\ UNCHANGED <<sState, sDue, cell, sThr, sRuns, exceptSched>>

SFree == {t \in SThreads : sThr[t].pc = "free"}

\* One iteration of "for job in jobs": job is bound to the next job of the list; if
\* the job is due, preRun and jobThread.start().
checkFor ==
  /\ scan.pc = "for"
  /\ scan.jobs # <<>>
  /\ LET job == Head(scan.jobs) IN
       /\ cell' = [cell EXCEPT ![scan.n] = job]
       /\ IF sDue[job]
          THEN /\ SFree # {}
               /\ LET t == CHOOSE t \in SFree : \A u \in SFree : t <= u IN
                    sThr' = [sThr EXCEPT ![t] = [pc |-> "started", scan |-> scan.n,
                                                 for |-> job, job |-> 0]]
          ELSE sThr' = sThr
  /\ scan' = [scan EXCEPT !.jobs = Tail(@)]
  /\ UNCHANGED <<sState, sDue, sRuns, exceptSched>>

\* The loop is over: check returns, and Scheduler.run waits again.
checkReturn ==
  /\ scan.pc = "for"
  /\ scan.jobs = <<>>
  /\ scan' = [scan EXCEPT !.pc = "wait"]
  /\ UNCHANGED <<sState, sDue, cell, sThr, sRuns, exceptSched>>

\* The thread runs its target, lambda: job.run(job.getScheduledSession()): job is
\* what the variable of the check call holds now.
SThreadTarget(t) ==
  /\ sThr[t].pc = "started"
  /\ LET job == cell[sThr[t].scan] IN
       /\ sThr' = [sThr EXCEPT ![t].pc = "run", ![t].job = job]
       /\ sRuns' = [sRuns EXCEPT ![job] = @ + 1]
  /\ UNCHANGED <<sState, sDue, scan, cell, exceptSched>>

\* job.run comes to its setState(STATE_RUNNING).
SThreadRunning(t) ==
  /\ sThr[t].pc = "run"
  /\ sThr' = [sThr EXCEPT ![t].pc = "running"]
  /\ sState' = [sState EXCEPT ![sThr[t].job] = STATE_RUNNING]
  /\ UNCHANGED <<sDue, scan, cell, sRuns, exceptSched>>

\* job.run ends: setState(STATE_COMPLETE).
SThreadReturn(t) ==
  /\ sThr[t].pc = "running"
  /\ sThr' = [sThr EXCEPT ![t].pc = "over"]
  /\ sState' = [sState EXCEPT ![sThr[t].job] = STATE_COMPLETE]
  /\ UNCHANGED <<sDue, scan, cell, sRuns, exceptSched>>

SchedNext ==
  \/ \E j \in SJobs : SDue(j)
  \/ check
  \/ checkFor
  \/ checkReturn
  \/ \E t \in SThreads : SThreadTarget(t)
  \/ \E t \in SThreads : SThreadRunning(t)
  \/ \E t \in SThreads : SThreadReturn(t)

\* C33: the thread the scheduler started for a due waiting job calls run on that
\* job, and run is called on no job a second time.
C33_EachDueJobRunExactlyOnce ==
  [][\A t \in SThreads :
       (sThr[t].pc = "started" /\ sThr'[t].pc = "run") =>
         /\ sThr'[t].job = sThr[t].for
         /\ sRuns'[sThr[t].for] = 1]_vars

(***************************************************************************)
(* The done and killed events of the PTCs of a test case in the system     *)
(* queue: the MTC creates and starts PTCs, a behaviour thread ends with    *)
(* _doStop, which posts the events, and components wait for a PTC with     *)
(* done(), an alt on the DONE condition of the PTC.                        *)
(***************************************************************************)
MaxQPtcs == 2
MaxQRuns == 2

QPtcs == 1..MaxQPtcs
QComponents == {0} \cup QPtcs

SysQInit ==
  /\ qState = [p \in QPtcs |-> "none"]
  /\ qAlive = [p \in QPtcs |-> FALSE]
  /\ qQueue = <<>>
  /\ qThread = [p \in QPtcs |-> "idle"]
  /\ qWait = [c \in QComponents |-> 0]
  /\ qStart = 0
  /\ qRuns = [p \in QPtcs |-> 0]

QCreated == {p \in QPtcs : qState[p] # "none"}

\* TestComponent.alive, for a PTC of testcase._ptcs.
QIsAlive(p) ==
  IF qAlive[p]
  THEN qState[p] # TC_STATE_KILLED
  ELSE qState[p] \in {TC_STATE_INACTIVE, TC_STATE_RUNNING}

\* The MTC is in the body of the test case, in no call.
MtcFree == qWait[0] = 0 /\ qStart = 0

\* TestCase.create: the next PTC, alive or not.
QCreate(isAlive) ==
  /\ MtcFree
  /\ QCreated # QPtcs
  /\ LET p == CHOOSE p \in QPtcs \ QCreated : \A o \in QPtcs \ QCreated : p <= o
     IN /\ qState' = [qState EXCEPT ![p] = TC_STATE_INACTIVE]
        /\ qAlive' = [qAlive EXCEPT ![p] = isAlive]
  /\ UNCHANGED <<qQueue, qThread, qWait, qStart, qRuns, exceptSysQ>>

\* TestComponent.start on a PTC that is alive and not running: the DONE event of
\* the PTC and an all_done event are removed from the system queue.
QStartRemove(p) ==
  /\ MtcFree
  /\ p \in QCreated
  /\ QIsAlive(p)
  /\ qState[p] # TC_STATE_RUNNING
  /\ qRuns[p] < MaxQRuns
  /\ qQueue' = Remove(Remove(qQueue, DONE_EVENT(p)), ALL_DONE_EVENT)
  /\ qStart' = p
  /\ UNCHANGED <<qState, qAlive, qThread, qWait, qRuns, exceptSysQ>>

\* TestComponent.start, then: _setState(STATE_RUNNING) and the behaviour thread.
QStartRun ==
  /\ qStart # 0
  /\ qState' = [qState EXCEPT ![qStart] = TC_STATE_RUNNING]
  /\ qThread' = [qThread EXCEPT ![qStart] = "run"]
  /\ qRuns' = [qRuns EXCEPT ![qStart] = @ + 1]
  /\ qStart' = 0
  /\ UNCHANGED <<qAlive, qQueue, qWait, exceptSysQ>>

\* The behaviour ends and _start calls _doStop: a PTC that is not alive goes to
\* killed, an alive one to stopped.
QDoStop(p) ==
  /\ qThread[p] = "run"
  /\ qWait[p] = 0
  /\ qState' = [qState EXCEPT ![p] = IF qAlive[p] THEN TC_STATE_STOPPED ELSE TC_STATE_KILLED]
  /\ qThread' = [qThread EXCEPT ![p] = "done"]
  /\ UNCHANGED <<qAlive, qQueue, qWait, qStart, qRuns, exceptSysQ>>

\* _emitDoneEvent and _emitKilledEvent, first half: the event of the PTC is posted.
QEmit(p) ==
  /\ qThread[p] \in {"done", "killed"}
  /\ qQueue' = Append(qQueue, IF qThread[p] = "done" THEN DONE_EVENT(p) ELSE KILLED_EVENT(p))
  /\ qThread' = [qThread EXCEPT ![p] = IF qThread[p] = "done" THEN "doneLast" ELSE "killedLast"]
  /\ UNCHANGED <<qState, qAlive, qWait, qStart, qRuns, exceptSysQ>>

\* What follows _emitDoneEvent in _doStop (the killed event of a PTC that is not
\* alive) and what follows _emitKilledEvent (nothing).
AfterEmit(p, pc) == IF pc \in {"doneLast", "allDone"} /\ ~qAlive[p] THEN "killed" ELSE "idle"

\* _emitDoneEvent and _emitKilledEvent, the loop over testcase._ptcs: it returns if
\* a PTC is alive.
QEmitLast(p) ==
  /\ qThread[p] \in {"doneLast", "killedLast"}
  /\ qThread' = [qThread EXCEPT ![p] =
                   IF \E o \in QCreated : QIsAlive(o) THEN AfterEmit(p, qThread[p])
                   ELSE IF qThread[p] = "doneLast" THEN "allDone" ELSE "allKilled"]
  /\ UNCHANGED <<qState, qAlive, qQueue, qWait, qStart, qRuns, exceptSysQ>>

\* _emitDoneEvent and _emitKilledEvent, the end: no PTC was alive, the all_done or
\* the all_killed event is posted.
QEmitAll(p) ==
  /\ qThread[p] \in {"allDone", "allKilled"}
  /\ qQueue' = Append(qQueue, IF qThread[p] = "allDone" THEN ALL_DONE_EVENT ELSE ALL_KILLED_EVENT)
  /\ qThread' = [qThread EXCEPT ![p] = AfterEmit(p, qThread[p])]
  /\ UNCHANGED <<qState, qAlive, qWait, qStart, qRuns, exceptSysQ>>

\* TestComponent.done called by the MTC or by the behaviour of another PTC on a
\* PTC that is running: alt([[self.DONE, lambda: RETURN]]).
done(c, p) ==
  /\ IF c = 0 THEN MtcFree ELSE qThread[c] = "run" /\ qWait[c] = 0
  /\ p # c
  /\ qState[p] = TC_STATE_RUNNING
  /\ qWait' = [qWait EXCEPT ![c] = p]
  /\ UNCHANGED <<qState, qAlive, qQueue, qThread, qStart, qRuns, exceptSysQ>>

\* A pass of the alt of the component over the system queue finds the DONE event of
\* the PTC: the event matches, it is removed from the queue, and alt returns.
QAlt(c) ==
  /\ qWait[c] # 0
  /\ \E i \in 1..Len(qQueue) : templateMatch(qQueue[i], DONE_EVENT(qWait[c]))
  /\ qQueue' = Remove(qQueue, DONE_EVENT(qWait[c]))
  /\ qWait' = [qWait EXCEPT ![c] = 0]
  /\ UNCHANGED <<qState, qAlive, qThread, qStart, qRuns, exceptSysQ>>

SysQNext ==
  \/ \E isAlive \in BOOLEAN : QCreate(isAlive)
  \/ \E p \in QPtcs : QStartRemove(p)
  \/ QStartRun
  \/ \E p \in QPtcs : QDoStop(p)
  \/ \E p \in QPtcs : QEmit(p)
  \/ \E p \in QPtcs : QEmitLast(p)
  \/ \E p \in QPtcs : QEmitAll(p)
  \/ \E c \in QComponents, p \in QPtcs : done(c, p)
  \/ \E c \in QComponents : QAlt(c)

\* A thread that can take a step takes it: the threads of the PTCs run to the end of
\* _doStop, and an alt makes a pass at least every second.
SysQFairness ==
  /\ \A p \in QPtcs : WF_vars(QEmit(p) \/ QEmitLast(p) \/ QEmitAll(p))
  /\ \A c \in QComponents : WF_vars(QAlt(c))

\* C34: once a PTC is stopped or killed, every component that is in an alt on the
\* DONE condition of the PTC leaves this alt, whatever other components wait for
\* the same PTC.
C34_WaitersOfTerminatedPtcProceed ==
  \A c \in QComponents, p \in QPtcs :
    (qWait[c] = p /\ qState[p] \in {TC_STATE_STOPPED, TC_STATE_KILLED}) ~> (qWait[c] # p)

\* C38: while an all_done event is in the system queue, no PTC is running.
C38_NoPtcRunningWhileAllDone ==
  (\E i \in 1..Len(qQueue) : qQueue[i] = ALL_DONE_EVENT) =>
    \A p \in QPtcs : qState[p] # TC_STATE_RUNNING

(***************************************************************************)
(* alt on the system queue, pass by pass, with its local variable match:   *)
(* the alternatives on any_component.DONE and any_component.KILLED set it  *)
(* on a hit only, the other alternatives assign it the result of           *)
(* templateMatch.                                                          *)
(***************************************************************************)
MaxAnyQueue == 2
MaxPasses == 2

\* the events posted while the alt is observed, and the alternatives its caller
\* passes: the two conditions of any_component and one of a timer
AnyEvents == {TIMEOUT_EVENT, DONE_EVENT(1), KILLED_EVENT(1), STOP_COMMAND(1)}

AnyAlternatives ==
  UNION {[1..n -> {ANY_DONE_EVENT, ANY_KILLED_EVENT, TIMEOUT_EVENT}] : n \in 1..MaxAlternatives}

NoMatchedInfo == [condition |-> NoEvent, message |-> NoEvent, pass |-> 0]

AnyInit ==
  /\ aTc = 0
  /\ aAlternatives = <<>>
  /\ aRepeat = {}
  /\ aQueue = <<>>
  /\ aPc = "idle"
  /\ aMatch = "unbound"
  /\ matchedInfo = NoMatchedInfo
  /\ aPasses = 0

\* _postSystemEvent, by another thread, between two passes of alt.
AnyPost(m) ==
  /\ Len(aQueue) < MaxAnyQueue
  /\ aQueue' = Append(aQueue, m)
  /\ UNCHANGED <<aTc, aAlternatives, aRepeat, aPc, aMatch, matchedInfo, aPasses, exceptAny>>

\* _removeSystemEvent, as Timer.start and TestComponent.start call it.
AnyRemove(m) ==
  /\ m \in {TIMEOUT_EVENT, ALL_DONE_EVENT} \cup {DONE_EVENT(p) : p \in Ptcs}
  /\ Count(aQueue, m) > 0
  /\ aQueue' = Remove(aQueue, m)
  /\ UNCHANGED <<aTc, aAlternatives, aRepeat, aPc, aMatch, matchedInfo, aPasses, exceptAny>>

\* alt, up to its loop: the prefix of the component is inserted before the
\* alternatives of the caller; match is not assigned yet.
AnyAlt(tc, user, repeats) ==
  /\ aPc = "idle"
  /\ aTc' = tc
  /\ aAlternatives' = getAltPrefix(tc) \o user
  /\ aRepeat' = {Len(getAltPrefix(tc)) + k : k \in repeats}
  /\ aPc' = "pass"
  /\ aMatch' = "unbound"
  /\ matchedInfo' = NoMatchedInfo
  /\ aPasses' = 0
  /\ UNCHANGED <<aQueue, exceptAny>>

RECURSIVE AnyScan(_, _, _, _, _)
\* alt, the loops of one pass over the messages of the system queue and, for
\* each, over the alternatives, from message i and alternative k with match m:
\* the alternative selected (0: none), its message, the value match is left
\* with, and whether reading match raised.
AnyScan(q, alternatives, i, k, m) ==
  IF i > Len(q)
  THEN [k |-> 0, i |-> 0, match |-> m, raised |-> FALSE]
  ELSE IF k > Len(alternatives)
  THEN AnyScan(q, alternatives, i + 1, 1, m)
  ELSE IF alternatives[k].event \in {"any.c.done", "any.c.killed"}
  THEN LET m2 == IF \/ alternatives[k].event = "any.c.done" /\ q[i].event = "done"
                    \/ alternatives[k].event = "any.c.killed" /\ q[i].event = "killed"
                 THEN "true" ELSE m
       IN IF m2 = "unbound" THEN [k |-> 0, i |-> 0, match |-> m2, raised |-> TRUE]
          ELSE IF m2 = "true" THEN [k |-> k, i |-> i, match |-> m2, raised |-> FALSE]
          ELSE AnyScan(q, alternatives, i, k + 1, m2)
  ELSE IF templateMatch(q[i], alternatives[k])
  THEN [k |-> k, i |-> i, match |-> "true", raised |-> FALSE]
  ELSE AnyScan(q, alternatives, i, k + 1, "false")

\* alt, one pass of its loop with the system queue locked: the first alternative
\* that matches is selected, its message is removed unless the alternative is on
\* any_component, then its actions run: the prefix raises the stop or the kill
\* exception, REPEAT makes a further pass, anything else ends alt.  Without a
\* match alt waits for the next pass.
AnyPass ==
  /\ aPc = "pass"
  /\ LET r == AnyScan(aQueue, aAlternatives, 1, 1, aMatch)
     IN /\ aMatch' = r.match
        /\ IF r.raised
           THEN /\ aPc' = "idle"
                /\ UNCHANGED <<aQueue, matchedInfo, aPasses>>
           ELSE IF r.k = 0
           THEN UNCHANGED <<aQueue, aPc, matchedInfo, aPasses>>
           ELSE /\ aQueue' = IF Consumed(aAlternatives[r.k]) THEN Remove(aQueue, aQueue[r.i])
                             ELSE aQueue
                /\ matchedInfo' = [condition |-> aAlternatives[r.k], message |-> aQueue[r.i],
                                   pass |-> aPasses + 1]
                /\ aPasses' = aPasses + 1
                /\ aPc' = IF r.k \in aRepeat /\ aPasses + 1 < MaxPasses THEN "pass" ELSE "idle"
  /\ UNCHANGED <<aTc, aAlternatives, aRepeat, exceptAny>>

AnyNext ==
  \/ \E m \in AnyEvents : AnyPost(m)
  \/ \E m \in AnyEvents : AnyRemove(m)
  \/ \E tc \in Components, user \in AnyAlternatives :
       \E repeats \in SUBSET (1..Len(user)) : AnyAlt(tc, user, repeats)
  \/ AnyPass

\* C35: a pass of alt selects an alternative on any_component.DONE only with a done
\* event of a PTC in the system queue, one on any_component.KILLED only with a
\* killed event of a PTC in it, on the first pass and on the passes after a
\* REPEAT, and the selection leaves the system queue as it is.
C35_AnyComponentSelectedOnlyOnEvent ==
  [][(aPasses' # aPasses /\ aPasses' # 0 /\
      matchedInfo'.condition \in {ANY_DONE_EVENT, ANY_KILLED_EVENT}) =>
       /\ matchedInfo'.condition = ANY_DONE_EVENT =>
            \E i \in 1..Len(aQueue) : aQueue[i].event = "done"
       /\ matchedInfo'.condition = ANY_KILLED_EVENT =>
            \E i \in 1..Len(aQueue) : aQueue[i].event = "killed"
       /\ aQueue' = aQueue]_vars

\* any_component.DONE is selected on the pass after a REPEAT, with a message ahead
\* of the done event in the queue.
C35_Witness ==
  /\ matchedInfo.pass = 2
  /\ matchedInfo.condition = ANY_DONE_EVENT
  /\ Len(aQueue) = 2
  /\ aQueue[1].event # "done"

(***************************************************************************)
(* The notifier of one test component on the system queue: the pipe of its *)
(* context, the count of its users, and the list of pipes the system queue *)
(* notifies.  The alts of the component nest: an action of an alt calls    *)
(* another alt.                                                            *)
(***************************************************************************)
MaxDepth == 2
MaxUserCount == 8
MaxPipes == 2

ListenerInit ==
  /\ systemQueueNotifier = 0
  /\ systemQueueNotifierUserCount = 0
  /\ pipes = {}
  /\ lAlts = <<>>
  /\ lBase = 0
  /\ lPipes = 0

\* TestermanContext.getSystemQueueNotifier: the notifier and the count it leaves,
\* from the notifier and the count it finds.
getSystemQueueNotifier(notifier, count, created) ==
  [notifier |-> IF notifier = 0 THEN created + 1 ELSE notifier,
   count |-> (IF notifier = 0 THEN 0 ELSE count) + 1,
   created |-> IF notifier = 0 THEN created + 1 ELSE created]

\* TestermanContext.cleanSystemQueueNotifier.
cleanSystemQueueNotifier(notifier, count, force) ==
  IF (force \/ count - 1 <= 0) /\ notifier # 0
  THEN [notifier |-> 0, count |-> 0]
  ELSE [notifier |-> notifier, count |-> count - 1]

\* alt, its registration: _registerListener, then getNotifierFd.
AltRegister ==
  /\ Len(lAlts) < MaxDepth
  /\ lPipes < MaxPipes
  /\ systemQueueNotifierUserCount + 2 <= MaxUserCount
  /\ LET r == getSystemQueueNotifier(systemQueueNotifier, systemQueueNotifierUserCount, lPipes)
         f == getSystemQueueNotifier(r.notifier, r.count, r.created)
     IN /\ pipes' = pipes \cup {r.notifier}
        /\ systemQueueNotifier' = f.notifier
        /\ systemQueueNotifierUserCount' = f.count
        /\ lPipes' = f.created
  /\ lAlts' = Append(lAlts, "loop")
  /\ lBase' = IF lAlts = <<>> THEN systemQueueNotifierUserCount ELSE lBase
  /\ UNCHANGED exceptLis

\* alt, one pass of the innermost alt: _acknowledgeNotification.
AltAcknowledge ==
  /\ lAlts # <<>>
  /\ systemQueueNotifierUserCount + 1 <= MaxUserCount
  /\ LET r == getSystemQueueNotifier(systemQueueNotifier, systemQueueNotifierUserCount, lPipes)
     IN /\ systemQueueNotifier' = r.notifier
        /\ systemQueueNotifierUserCount' = r.count
        /\ lPipes' = r.created
  /\ UNCHANGED <<pipes, lAlts, lBase, exceptLis>>

\* alt, the innermost alt leaves its loop after a match or on an exception:
\* _unregisterListener.
AltUnregister ==
  /\ lAlts # <<>>
  /\ lPipes < MaxPipes
  /\ LET r == getSystemQueueNotifier(systemQueueNotifier, systemQueueNotifierUserCount, lPipes)
         c == cleanSystemQueueNotifier(r.notifier, r.count, FALSE)
     IN /\ pipes' = pipes \ {r.notifier}
        /\ systemQueueNotifier' = c.notifier
        /\ systemQueueNotifierUserCount' = c.count
        /\ lPipes' = r.created
  /\ lAlts' = SubSeq(lAlts, 1, Len(lAlts) - 1)
  /\ UNCHANGED <<lBase, exceptLis>>

\* alt, an action of the innermost alt is RETURN: alt returns from inside its loop.
AltReturn ==
  /\ lAlts # <<>>
  /\ lAlts' = SubSeq(lAlts, 1, Len(lAlts) - 1)
  /\ UNCHANGED <<systemQueueNotifier, systemQueueNotifierUserCount, pipes, lBase, lPipes,
                 exceptLis>>

\* The context of the component is cleaned once no alt of it is active:
\* cleanSystemQueueNotifier(force = True).
CleanContext ==
  /\ lAlts = <<>>
  /\ systemQueueNotifier # 0
  /\ LET c == cleanSystemQueueNotifier(systemQueueNotifier, systemQueueNotifierUserCount, TRUE)
     IN /\ systemQueueNotifier' = c.notifier
        /\ systemQueueNotifierUserCount' = c.count
  /\ UNCHANGED <<pipes, lAlts, lBase, lPipes, exceptLis>>

ListenerNext ==
  \/ AltRegister
  \/ AltAcknowledge
  \/ AltUnregister
  \/ AltReturn
  \/ CleanContext

\* C36: while an alt of the component is active its notifier is among the pipes of
\* the system queue, also after an inner alt is over; when the last active alt is
\* over, the notifier is not among the pipes any more and the user count is what
\* it was before the first of these alts.
C36_ListenerRegisteredWhileAnAltIsActive ==
  [][/\ lAlts' # <<>> => systemQueueNotifier' # 0 /\ systemQueueNotifier' \in pipes'
     /\ (lAlts # <<>> /\ lAlts' = <<>>) =>
          /\ pipes' = {}
          /\ systemQueueNotifierUserCount' = lBase]_vars

(***************************************************************************)
(* CampaignJob._parse of a root campaign, line by line.  The campaign is   *)
(* job 0, the job of line n is job n, None is -1.                          *)
(***************************************************************************)
MaxLines == 4
MaxIndent == 2

Lines == 1..MaxLines
None == -1
NoLine == [type |-> "none", indent |-> 0, container |-> None, branch |-> BRANCH_UNCONDITIONAL,
           parent |-> None]

ParseInit ==
  /\ lc = 0
  /\ indent = 0
  /\ currentParent = Campaign
  /\ lastCreatedJob = 0
  /\ parsed = [n \in Lines |-> NoLine]
  /\ parseError = [raised |-> FALSE, indentDiff |-> 0]

\* Job.getParent; the root campaign has no parent.
getParent(job) == IF job = Campaign THEN None ELSE parsed[job].parent

isGroupJob(job) == job \in Lines /\ parsed[job].type = "group"

RECURSIVE climb(_, _)
\* _parse, a negative indentDiff: currentParent = currentParent.getParent(), n
\* times; getParent of None raises (-2).
climb(job, n) ==
  IF n = 0 THEN job
  ELSE IF job = None THEN -2
  ELSE climb(getParent(job), n - 1)

RECURSIVE firstNonGroupAncestor(_)
\* GroupJob.addChild: the first ancestor that is not a group, the group first.
firstNonGroupAncestor(job) ==
  IF isGroupJob(job) THEN firstNonGroupAncestor(parsed[job].parent) ELSE job

\* _parse, the body of its loop for one line: the indent of the line, its type and
\* its branch token.
parseLine(spaces, type, token) ==
  /\ ~parseError.raised
  /\ lc < MaxLines
  /\ lc' = lc + 1
  /\ indent' = spaces
  /\ LET indentDiff == spaces - indent
         job == lc + 1
         parent == IF indentDiff = 1 THEN lastCreatedJob
                   ELSE IF indentDiff = 0 THEN currentParent
                   ELSE climb(currentParent, -indentDiff)
         branch == IF parent = Campaign \/ isGroupJob(parent) THEN BRANCH_UNCONDITIONAL
                   ELSE IF token = "on_error" THEN BRANCH_ERROR
                   ELSE BRANCH_SUCCESS
     IN IF \/ indentDiff > 1
           \/ indentDiff = 1 /\ lastCreatedJob = 0
           \/ indentDiff < 0 /\ parent \in {None, -2}
        THEN /\ parseError' = [raised |-> TRUE, indentDiff |-> indentDiff]
             /\ UNCHANGED <<currentParent, lastCreatedJob, parsed>>
        ELSE /\ currentParent' = parent
             /\ parsed' = [parsed EXCEPT ![job] =
                             [type |-> type, indent |-> spaces, container |-> parent,
                              branch |-> branch,
                              parent |-> IF isGroupJob(parent) THEN firstNonGroupAncestor(parent)
                                         ELSE parent]]
             /\ lastCreatedJob' = job
             /\ UNCHANGED parseError
  /\ UNCHANGED exceptParse

ParseNext ==
  \E spaces \in 0..MaxIndent, type \in {"ats", "group"}, token \in {"", "on_error"} :
    parseLine(spaces, type, token)

\* the job of the nearest line before line n whose indent is one less
Opener(n) ==
  IF parsed[n].indent = 0 THEN Campaign
  ELSE CHOOSE o \in 1..(n - 1) :
         /\ parsed[o].indent = parsed[n].indent - 1
         /\ \A h \in (o + 1)..(n - 1) : parsed[h].indent # parsed[n].indent - 1

\* C40: the job of a line at indent 0 is a child of the campaign, the job of a line
\* at indent k > 0 is a child of the job of the nearest line before it at indent
\* k - 1, and no line whose indent is not larger than the one of the line before
\* it is rejected.
C40_TreeFollowsIndentation ==
  /\ \A n \in 1..lastCreatedJob : parsed[n].container = Opener(n)
  /\ parseError.raised => parseError.indentDiff >= 1

TtcnInit == TimerInit /\ AltInit /\ TcInit

\* Outside their own specification the campaign, the rescheduled job and the
\* purged queue start from one of their initial states and stay there.
CampaignIdle == CampaignInit /\ source = [tree |-> "empty", signature |-> "ok"]

RescheduleIdle == RescheduleInit /\ scheduledStartTime = MaxTime

PurgeIdle ==
  /\ pJobs = [j \in PJobs |-> [parent |-> 0, state |-> STATE_WAITING, stopTime |-> 0]]
  /\ pQueue = [j \in PJobs |-> j]
  /\ purged = [n |-> 0, older_than |-> 0, count |-> 0]

LastInit == SchedInit /\ SysQInit /\ AnyInit /\ ListenerInit /\ ParseInit

CoreInit ==
  JobInit /\ TacsInit /\ TtcnInit /\ XaInit /\ PassInit /\ PortInit /\ DispatchInit /\ LastInit

Init == CoreInit /\ CampaignIdle /\ RescheduleIdle /\ PurgeIdle

SpecJobs == Init /\ [][JobNext]_vars

SpecTacs == Init /\ [][TacsNext]_vars

SpecTimer == Init /\ [][TimerNext]_vars

SpecAlt == Init /\ [][AltNext]_vars

SpecTc == Init /\ [][TcNext]_vars

SpecXa == Init /\ [][XaNext]_vars

SpecPass == Init /\ [][PassNext]_vars

SpecPort == Init /\ [][PortNext]_vars

InitCampaign == CoreInit /\ CampaignInit /\ RescheduleIdle /\ PurgeIdle

SpecCampaign == InitCampaign /\ [][CampaignNext]_vars

SpecDispatch == Init /\ [][DispatchNext]_vars

InitReschedule == CoreInit /\ CampaignIdle /\ RescheduleInit /\ PurgeIdle

SpecReschedule == InitReschedule /\ [][RescheduleNext]_vars

InitPurge == CoreInit /\ CampaignIdle /\ RescheduleIdle /\ PurgeInit

SpecPurge == InitPurge /\ [][PurgeNext]_vars

SpecSched == Init /\ [][SchedNext]_vars

SpecSysQ == Init /\ [][SysQNext]_vars /\ SysQFairness

SpecAny == Init /\ [][AnyNext]_vars

SpecListener == Init /\ [][ListenerNext]_vars

SpecParse == Init /\ [][ParseNext]_vars

====
